---- MODULE Spec2Model ----
(***************************************************************************)
(* Covered-call strategist: the strategy pipeline of                       *)
(* src/src/tools/strategy_tools.py with the tools it calls                 *)
(* (analysis_tools, options_tools, formatting_tools, technical_tools).     *)
(*                                                                         *)
(* Units.  Stock prices and strikes are whole dollars, bids (premiums)     *)
(* are cents, annualized_return and moneyness are hundredths of a percent  *)
(* (the code's round(x, 2)), premium_yield is ten-thousandths of a percent *)
(* (round(x, 4)), OTM bands and tier shares are whole percents, the        *)
(* technical signal scores are tenths.  Python's float arithmetic is       *)
(* modelled by exact rational arithmetic on these integers; for whole-     *)
(* dollar prices and strikes the float band limits price * (1 + pct)       *)
(* include and exclude the same strikes as the exact ones.                 *)
(***************************************************************************)
EXTENDS Integers, Sequences, FiniteSets, TLC

VARIABLES
    pc,            \* position of run_covered_call_strategy
    shares,        \* argument shares
    otm_only,      \* argument otm_only
    calls,         \* the external collaborators consulted so far, in order
    validation,    \* result of validate_ticker
    price_data,    \* result of get_stock_price
    options_data,  \* result of get_options_chain
    filtered_options, \* the candidates after all filters
    technical,     \* result of get_technical_analysis
    selection,     \* the run's best_option, strike_selection, layered_strategy
    result,        \* the dict returned by run_covered_call_strategy
    cands,         \* argument list of a direct call of a selection function
    cprice,        \* stock_price argument of that call
    ctech,         \* technical_analysis argument of that call
    cperm,         \* a second ordering of cands
    cargs,         \* the other arguments of that call
    cout,          \* what the call returned
    limiter,       \* the RateLimiter: max_requests, window_seconds
    clock,         \* the time, in seconds
    doc,           \* the rate_limits document of one (platform, user)
    inflight,      \* for every caller the `now` of its is_allowed call, if any
    answers        \* what the is_allowed calls returned, in commit order

vars == <<pc, shares, otm_only, calls, validation, price_data, options_data,
          filtered_options, technical, selection, result,
          cands, cprice, ctech, cperm, cargs, cout,
          limiter, clock, doc, inflight, answers>>

runVars == <<pc, shares, otm_only, calls, validation, price_data, options_data,
             filtered_options, technical, selection, result>>

callVars == <<cands, cprice, ctech, cperm, cargs, cout>>

botVars == <<limiter, clock, doc, inflight, answers>>

-----------------------------------------------------------------------------
(* Bounds of the model. *)

\* longest option chain the chain source returns, and longest candidate list
MaxChain == 3

\* most contracts of a position handed to the layering engine
MaxContracts == 10

\* the rate limiter: largest max_requests and window_seconds it is built
\* with, the last second of the clock, and the most is_allowed calls
MaxRequests == 2
MaxWindow == 3
MaxClock == 4
MaxAnswers == 4

\* most words of a text handed to parse_stock_request
MaxWords == 3

\* longest text handed to split_long_message and largest max_length
MaxText == 6
MaxLength == 3

-----------------------------------------------------------------------------
(* Program constants. *)

min_days == 7
max_days == 45
min_open_interest == 10
LayeredMinShares == 300
MinLayerContracts == 3
ContractSize == 100

\* None / null
None == "None"

\* sessions of a closing-price series, and the stretches of constant daily
\* change it is made of
Sessions == 90
Segments == 4

\* periods of the indicators (technical_tools.py)
RsiPeriod == 14
FastSpan == 12
SlowSpan == 26
SignalSpan == 9
ShortWindow == 20
LongWindow == 50

-----------------------------------------------------------------------------
(* Arithmetic helpers. *)

Max(a, b) == IF a >= b THEN a ELSE b

\* round(n / d) for d > 0, ties to the even neighbour (Python's round)
Round(n, d) ==
    LET q == n \div d
        r == n % d
    IN  IF 2 * r < d THEN q
        ELSE IF 2 * r > d THEN q + 1
        ELSE IF q % 2 = 0 THEN q ELSE q + 1

SeqsUpTo(S, n) == UNION {[1..k -> S] : k \in 0..n}


-----------------------------------------------------------------------------
(* Data model: option contracts as the chain source builds them            *)
(* (options_tools.py lines 49-59).                                         *)

Opt(k, e, d, b, oi) ==
    [strike |-> k, expiration |-> e, days_to_expiry |-> d, bid |-> b,
     open_interest |-> oi]

\* stock prices the price source reports
Prices == {100}

\* rows of the upstream option chain, for a stock at 100
Rows ==
    { Opt(95,  "2025-02-15", 30, 800,   50),   \* in the money
      Opt(100, "2025-02-15", 30, 300,   50),   \* at the money
      Opt(102, "2025-02-15", 30, 204,   50),   \* same yield as the 104 strike
      Opt(103, "2025-03-01", 45, 120,   10),   \* at both window/liquidity limits
      Opt(104, "2025-02-15", 30, 208,   50),
      Opt(108, "2025-01-23", 7,  400,   50),   \* shortest expiry, highest yield
      Opt(110, "2025-02-15", 30, 50,    50),
      Opt(160, "2025-02-15", 30, 2500,  50),   \* far OTM with a stale bid
      Opt(105, "2025-02-15", 30, 15000, 50),   \* bid above the stock price
      Opt(103, "2025-01-21", 5,  120,   50),   \* expires too soon
      Opt(103, "2025-02-15", 30, 0,     50),   \* no bid
      Opt(103, "2025-02-15", 30, 120,   5) }   \* low open interest

\* dict.get(key, 0); a dict is a record, an absent key an absent field
Get(opt, key) == IF key \in DOMAIN opt THEN opt[key] ELSE 0

\* the keys calculate_option_metrics reads with option[...]
RequiredKeys == {"strike", "bid", "days_to_expiry", "expiration"}

-----------------------------------------------------------------------------
(* analysis_tools.py *)

MetricsError == [error |-> "Error calculating metrics"]

\* mutant of calculate_option_metrics: the division by days_to_expiry is not
\* guarded, an option expiring today raises ZeroDivisionError
calculate_option_metrics_Unguarded(option, stock_price) ==
    IF ~(RequiredKeys \subseteq DOMAIN option) \/ stock_price = 0
       \/ option.days_to_expiry = 0
    THEN MetricsError
    ELSE
      LET strike == option.strike
          premium == option.bid
          days == option.days_to_expiry
      IN  [strike |-> strike,
           expiration |-> option.expiration,
           premium |-> premium,
           premium_yield |->
               IF strike > 0 THEN Round(premium * 10000, strike) ELSE 0,
           annualized_return |->
               IF days > 0
               THEN (IF strike > 0
                     THEN Round(premium * 36500, strike * days) ELSE 0)
               ELSE 0,
           is_itm |-> strike < stock_price,
           moneyness |->
               IF stock_price > 0
               THEN Round((strike - stock_price) * 10000, stock_price)
               ELSE - Round((strike - stock_price) * 10000, - stock_price),
           days_to_expiry |-> days,
           open_interest |-> Get(option, "open_interest")]

calculate_option_metrics(option, stock_price) ==
    IF ~(RequiredKeys \subseteq DOMAIN option) \/ stock_price = 0
    THEN MetricsError   \* KeyError or ZeroDivisionError, caught
    ELSE
      LET strike == option.strike
          premium == option.bid
          days == option.days_to_expiry
      IN  [strike |-> strike,
           expiration |-> option.expiration,
           premium |-> premium,
           premium_yield |->
               IF strike > 0 THEN Round(premium * 10000, strike) ELSE 0,
           annualized_return |->
               IF days > 0
               THEN (IF strike > 0
                     THEN Round(premium * 36500, strike * days) ELSE 0)
               ELSE 0,
           is_itm |-> strike < stock_price,
           moneyness |->
               IF stock_price > 0
               THEN Round((strike - stock_price) * 10000, stock_price)
               ELSE - Round((strike - stock_price) * 10000, - stock_price),
           days_to_expiry |-> days,
           open_interest |-> Get(option, "open_interest")]

IsError(metrics) == "error" \in DOMAIN metrics

\* the loop of find_best_option: state <<best_option, best_annualized>>,
\* best_option a list of zero or one metrics dicts
RECURSIVE BestLoop(_, _, _, _)
BestLoop(options, stock_price, best_option, best_annualized) ==
    IF options = <<>> THEN best_option
    ELSE LET metrics == calculate_option_metrics(Head(options), stock_price)
         IN  IF IsError(metrics)
             THEN BestLoop(Tail(options), stock_price, best_option,
                           best_annualized)
             ELSE IF metrics.annualized_return > best_annualized
             THEN BestLoop(Tail(options), stock_price, <<metrics>>,
                           metrics.annualized_return)
             ELSE BestLoop(Tail(options), stock_price, best_option,
                           best_annualized)

\* mutant: ties go to the later candidate (>= for >)
RECURSIVE BestLoop_LastWins(_, _, _, _)
BestLoop_LastWins(options, stock_price, best_option, best_annualized) ==
    IF options = <<>> THEN best_option
    ELSE LET metrics == calculate_option_metrics(Head(options), stock_price)
         IN  IF IsError(metrics)
             THEN BestLoop_LastWins(Tail(options), stock_price, best_option,
                                    best_annualized)
             ELSE IF metrics.annualized_return >= best_annualized
             THEN BestLoop_LastWins(Tail(options), stock_price, <<metrics>>,
                                    metrics.annualized_return)
             ELSE BestLoop_LastWins(Tail(options), stock_price, best_option,
                                    best_annualized)

\* best_yield = -1 of the code, in hundredths of a percent
InitialBest == -100

\* mutant of find_best_option: the loop keeps the later of equal candidates
find_best_option_LastWins(options, stock_price) ==
    IF options = <<>>
    THEN [found |-> FALSE, best_option |-> <<>>,
          error |-> "No options available after filtering."]
    ELSE LET best == BestLoop_LastWins(options, stock_price, <<>>, -100)
         IN  IF best = <<>>
             THEN [found |-> FALSE, best_option |-> <<>>,
                   error |-> "Could not calculate metrics for any options."]
             ELSE [found |-> TRUE, best_option |-> best, error |-> None]

\* mutant of find_best_option: the first candidate whose metrics compute is
\* kept, the comparison of returns forgotten
find_best_option_KeepsFirst(options, stock_price) ==
    LET ok == SelectSeq(options,
                  LAMBDA opt : ~IsError(calculate_option_metrics(opt, stock_price)))
    IN  IF ok = <<>>
        THEN [found |-> FALSE, best_option |-> <<>>,
              error |-> "Could not calculate metrics for any options."]
        ELSE [found |-> TRUE,
              best_option |-> <<calculate_option_metrics(Head(ok), stock_price)>>,
              error |-> None]

find_best_option(options, stock_price) ==
    IF options = <<>>
    THEN [found |-> FALSE, best_option |-> <<>>,
          error |-> "No options available after filtering."]
    ELSE LET best == BestLoop(options, stock_price, <<>>, InitialBest)
         IN  IF best = <<>>
             THEN [found |-> FALSE, best_option |-> <<>>,
                   error |-> "Could not calculate metrics for any options."]
             ELSE [found |-> TRUE, best_option |-> best, error |-> None]


-----------------------------------------------------------------------------
(* options_tools.py *)

InWindow(days, lo, hi) == lo <= days /\ days <= hi

\* get_options_chain: the upstream library either raises, lists no
\* expirations, or delivers rows; the rows of the expirations inside the
\* window are kept and given every key
get_options_chain(upstream) ==
    IF upstream.outcome = "raise"
    THEN [options |-> <<>>, error |-> "Error fetching options"]
    ELSE IF upstream.outcome = "no_expirations"
    THEN [options |-> <<>>, error |-> "No options available"]
    ELSE [options |->
              SelectSeq(upstream.rows,
                        LAMBDA r : InWindow(r.days_to_expiry, min_days, max_days)),
          error |-> None]

\* mutant of Keeps: the upper bound of the window is excluded
Keeps_ExclusiveMax(opt, lo, hi, min_oi) ==
    /\ lo <= opt.days_to_expiry /\ opt.days_to_expiry < hi
    /\ opt.open_interest >= min_oi
    /\ opt.bid > 0

Keeps(opt, lo, hi, min_oi) ==
    /\ InWindow(opt.days_to_expiry, lo, hi)
    /\ opt.open_interest >= min_oi
    /\ opt.bid > 0

\* evaluating the filter's condition on opt raises KeyError
FilterRaises(opt, lo, hi, min_oi) ==
    \/ "days_to_expiry" \notin DOMAIN opt
    \/ /\ InWindow(opt.days_to_expiry, lo, hi)
       /\ \/ "open_interest" \notin DOMAIN opt
          \/ /\ opt.open_interest >= min_oi
             /\ "bid" \notin DOMAIN opt

\* mutant of filter_options: only the first two matches are returned
filter_options_Truncates(data, lo, hi, min_oi) ==
    IF data.error # None
    THEN [filtered_options |-> <<>>, total_before_filter |-> 0,
          total_after_filter |-> 0, error |-> data.error]
    ELSE LET kept == SelectSeq(data.options,
                               LAMBDA opt : Keeps(opt, lo, hi, min_oi))
             first == IF Len(kept) > 2 THEN SubSeq(kept, 1, 2) ELSE kept
         IN  [filtered_options |-> first,
              total_before_filter |-> Len(data.options),
              total_after_filter |-> Len(first),
              error |-> None]

filter_options(data, lo, hi, min_oi) ==
    IF data.error # None
    THEN [filtered_options |-> <<>>, total_before_filter |-> 0,
          total_after_filter |-> 0, error |-> data.error]
    ELSE IF \E i \in 1..Len(data.options) :
                FilterRaises(data.options[i], lo, hi, min_oi)
    THEN [filtered_options |-> <<>>, total_before_filter |-> 0,
          total_after_filter |-> 0, error |-> "Error filtering options"]
    ELSE LET kept == SelectSeq(data.options,
                               LAMBDA opt : Keeps(opt, lo, hi, min_oi))
         IN  [filtered_options |-> kept,
              total_before_filter |-> Len(data.options),
              total_after_filter |-> Len(kept),
              error |-> None]

-----------------------------------------------------------------------------
(* formatting_tools.py *)

ErrorTypes == {"invalid_ticker", "no_options", "no_liquid_options",
               "invalid_shares", "api_error", "calculation_error"}

\* the message: which explanation it is, and the details put into it
\* mutant of format_error_message: the table lacks the entry of
\* no_liquid_options, which gets the fallback message
format_error_message_MissingEntry(error_type, details) ==
    [error_type |-> error_type,
     message |-> <<[section |-> "error",
                    explains |-> IF error_type \in ErrorTypes \ {"no_liquid_options"}
                                 THEN error_type ELSE "unexpected",
                    details |-> details]>>]

format_error_message(error_type, details) ==
    [error_type |-> error_type,
     message |-> <<[section |-> "error",
                    explains |-> IF error_type \in ErrorTypes
                                 THEN error_type ELSE "unexpected",
                    details |-> details]>>]

\* mutant of format_itm_warning: a strike equal to the price is warned about
format_itm_warning_AtTheMoney(strike, stock_price) ==
    IF strike > stock_price
    THEN [warning |-> <<>>, is_itm |-> FALSE]
    ELSE [warning |-> <<[section |-> "itm_warning",
                         itm_amount |-> stock_price - strike]>>,
          is_itm |-> TRUE]

format_itm_warning(strike, stock_price) ==
    IF strike >= stock_price
    THEN [warning |-> <<>>, is_itm |-> FALSE]
    ELSE IF stock_price = 0                      \* ZeroDivisionError, line 93
    THEN [warning |-> <<>>, is_itm |-> FALSE,
          error |-> "Error generating ITM warning"]
    ELSE [warning |-> <<[section |-> "itm_warning",
                         itm_amount |-> stock_price - strike]>>,
          is_itm |-> TRUE]

format_recommendation(stock_price, best_option, nshares, breakeven, max_profit) ==
    [formatted_text |-> <<[section |-> "recommendation",
                           contracts |-> nshares \div ContractSize,
                           strike |-> best_option.strike,
                           expiration |-> best_option.expiration,
                           premium |-> best_option.premium,
                           annualized_return |-> best_option.annualized_return,
                           is_itm |-> best_option.is_itm,
                           breakeven_price |-> breakeven.breakeven_price,
                           total_max_profit |-> max_profit.total_max_profit]>>,
     error |-> None]


-----------------------------------------------------------------------------
(* analysis_tools.py: outcome calculator *)

\* breakeven_price in cents, downside_protection_percent in hundredths
calculate_breakeven(stock_price, premium) ==
    IF stock_price = 0
    THEN [error |-> "Error calculating breakeven"]   \* ZeroDivisionError
    ELSE [breakeven_price |-> stock_price * 100 - premium,
          downside_protection_percent |->
              IF stock_price > 0 THEN Round(premium * 100, stock_price)
              ELSE - Round(premium * 100, - stock_price),
          error |-> None]

\* mutant of calculate_max_profit: the premium is counted once a contract
\* instead of once a share
calculate_max_profit_PerContract(stock_price, strike, premium, nshares) ==
    IF stock_price * nshares = 0
    THEN [error |-> "Error calculating max profit"]
    ELSE LET capital_gain_per_share == (strike - stock_price) * 100
             total_capital_gain == capital_gain_per_share * nshares
             total_premium == premium * (nshares \div ContractSize)
             total_max_profit == total_capital_gain + total_premium
             cost == stock_price * nshares
         IN  [contracts |-> nshares \div ContractSize,
              capital_gain_per_share |-> capital_gain_per_share,
              total_capital_gain |-> total_capital_gain,
              total_premium |-> total_premium,
              total_max_profit |-> total_max_profit,
              max_return_percent |->
                  IF cost > 0 THEN Round(total_max_profit * 100, cost)
                  ELSE - Round(total_max_profit * 100, - cost),
              error |-> None]

\* money in cents, max_return_percent in hundredths
calculate_max_profit(stock_price, strike, premium, nshares) ==
    IF stock_price * nshares = 0
    THEN [error |-> "Error calculating max profit"]  \* ZeroDivisionError
    ELSE LET capital_gain_per_share == (strike - stock_price) * 100
             total_capital_gain == capital_gain_per_share * nshares
             total_premium == premium * nshares
             total_max_profit == total_capital_gain + total_premium
             cost == stock_price * nshares
         IN  [contracts |-> nshares \div ContractSize,
              capital_gain_per_share |-> capital_gain_per_share,
              total_capital_gain |-> total_capital_gain,
              total_premium |-> total_premium,
              total_max_profit |-> total_max_profit,
              max_return_percent |->
                  IF cost > 0 THEN Round(total_max_profit * 100, cost)
                  ELSE - Round(total_max_profit * 100, - cost),
              error |-> None]

-----------------------------------------------------------------------------
(* technical_tools.py: the indicators.  Closing prices are whole dollars;   *)
(* the exponential averages, which the code holds in floats, are held to   *)
(* 1 / EmaScale of a dollar and rounded at every step; the RSI is in       *)
(* tenths of a point.                                                      *)

EmaScale == 100000

RECURSIVE SumSeq(_)
SumSeq(xs) == IF xs = <<>> THEN 0 ELSE Head(xs) + SumSeq(Tail(xs))

\* the last n elements of prices
LastN(prices, n) == SubSeq(prices, Len(prices) - n + 1, Len(prices))

\* prices.diff() at position i, the undefined first difference counting as
\* neither gain nor loss
Delta(prices, i) == IF i <= 1 THEN 0 ELSE prices[i] - prices[i - 1]

\* mutant of calculate_rsi: a window without losses counts as undefined
calculate_rsi_NoLossUndefined(prices) ==
    LET n == Len(prices)
        gains == [k \in 1..RsiPeriod |->
                     Max(Delta(prices, n - RsiPeriod + k), 0)]
        losses == [k \in 1..RsiPeriod |->
                      Max(- Delta(prices, n - RsiPeriod + k), 0)]
        gain == SumSeq(gains)
        loss == SumSeq(losses)
    IN  IF n < RsiPeriod THEN 500
        ELSE IF loss = 0 THEN 500
        ELSE Round(1000 * gain, gain + loss)

\* rolling means of the gains and losses over the last RsiPeriod
\* differences; rs = gain / loss is inf for loss = 0 < gain (RSI 100) and
\* nan for gain = loss = 0 (RSI 50.0); 100 - 100 / (1 + rs) otherwise
calculate_rsi(prices) ==
    LET n == Len(prices)
        gains == [k \in 1..RsiPeriod |->
                     Max(Delta(prices, n - RsiPeriod + k), 0)]
        losses == [k \in 1..RsiPeriod |->
                      Max(- Delta(prices, n - RsiPeriod + k), 0)]
        gain == SumSeq(gains)
        loss == SumSeq(losses)
    IN  IF n < RsiPeriod THEN 500
        ELSE IF loss = 0 THEN (IF gain = 0 THEN 500 ELSE 1000)
        ELSE Round(1000 * gain, gain + loss)

\* one step of ewm(span, adjust=False).mean(): alpha = 2 / (span + 1)
Ema(span, x, previous) == Round(2 * x + (span - 1) * previous, span + 1)

\* the series of lines 37-41 one session on from their values st: the two
\* averages, the signal line, the histogram and the histogram of the
\* session before
MacdStep(prices, st) ==
    LET i == st.session + 1
        ema12 == Ema(FastSpan, prices[i] * EmaScale, st.ema12)
        ema26 == Ema(SlowSpan, prices[i] * EmaScale, st.ema26)
        macd == ema12 - ema26
        signal == Ema(SignalSpan, macd, st.signal)
    IN  [session |-> i, ema12 |-> ema12, ema26 |-> ema26, signal |-> signal,
         histogram |-> macd - signal, prev_hist |-> st.histogram]

\* the sessions after st.session up to session hi, in order (first those up
\* to the middle one, then the rest)
RECURSIVE MacdLoop(_, _, _)
MacdLoop(prices, st, hi) ==
    IF st.session >= hi THEN st
    ELSE IF st.session + 1 = hi THEN MacdStep(prices, st)
    ELSE MacdLoop(prices,
                  MacdLoop(prices, st, (st.session + hi) \div 2), hi)

calculate_macd(prices) ==
    LET st == MacdLoop(prices,
                       [session |-> 1,
                        ema12 |-> prices[1] * EmaScale,
                        ema26 |-> prices[1] * EmaScale,
                        signal |-> 0, histogram |-> 0, prev_hist |-> 0],
                       Len(prices))
        current_macd == st.ema12 - st.ema26
        current_signal == st.signal
        current_hist == st.histogram
        prev_hist == st.prev_hist
    IN  [macd |-> current_macd, signal |-> current_signal,
         histogram |-> current_hist,
         trend |-> IF current_macd > current_signal /\ current_hist > prev_hist
                   THEN "bullish"
                   ELSE IF current_macd < current_signal
                           /\ current_hist < prev_hist
                   THEN "bearish"
                   ELSE "neutral"]

\* sma20 and sma50 are nan on fewer prices than the window, and every
\* comparison with nan is false
calculate_moving_averages(prices) ==
    LET n == Len(prices)
        current_price == prices[n]
        sum20 == IF n >= ShortWindow THEN SumSeq(LastN(prices, ShortWindow)) ELSE 0
        sum50 == IF n >= LongWindow THEN SumSeq(LastN(prices, LongWindow)) ELSE 0
        above_sma20 == n >= ShortWindow /\ current_price * ShortWindow > sum20
        above_sma50 == n >= LongWindow /\ current_price * LongWindow > sum50
        sma20_above_sma50 ==
            n >= LongWindow /\ sum20 * LongWindow > sum50 * ShortWindow
    IN  [current_price |-> current_price,
         above_sma20 |-> above_sma20,
         above_sma50 |-> above_sma50,
         trend |-> IF above_sma20 /\ above_sma50 /\ sma20_above_sma50
                   THEN "strong_bullish"
                   ELSE IF above_sma20 /\ above_sma50 THEN "bullish"
                   ELSE IF ~above_sma20 /\ ~above_sma50 /\ ~sma20_above_sma50
                   THEN "strong_bearish"
                   ELSE IF ~above_sma20 /\ ~above_sma50 THEN "bearish"
                   ELSE "neutral"]

-----------------------------------------------------------------------------
(* technical_tools.py: aggregation of the indicators *)

RSIValues == {0, 20, 35, 40, 45, 50, 55, 60, 65, 68, 70, 75, 100}
MACDTrends == {"bullish", "bearish", "neutral"}
MATrends == {"strong_bullish", "bullish", "strong_bearish", "bearish", "neutral"}
VolumeSignals == {"bullish_volume", "bearish_volume", "low_volume", "normal"}

\* mutant of RsiScore: an RSI of exactly 70 counts as overbought
RsiScore_InclusiveOverbought(rsi) ==
    IF rsi >= 70 THEN <<0, 5, "overbought_pullback">>
    ELSE IF rsi < 35 THEN <<5, 0, "oversold_bounce">>
    ELSE IF rsi > 65 THEN <<0, 3, None>>
    ELSE IF rsi > 55 THEN <<10, 0, None>>
    ELSE IF rsi < 45 THEN <<0, 10, None>>
    ELSE <<0, 0, None>>

\* the contribution of the RSI: <<bullish, bearish, bounce_potential>>, tenths
RsiScore(rsi) ==
    IF rsi > 70 THEN <<0, 5, "overbought_pullback">>
    ELSE IF rsi < 35 THEN <<5, 0, "oversold_bounce">>
    ELSE IF rsi > 65 THEN <<0, 3, None>>
    ELSE IF rsi > 55 THEN <<10, 0, None>>
    ELSE IF rsi < 45 THEN <<0, 10, None>>
    ELSE <<0, 0, None>>

\* sentiment and assignment_risk from the scores (bullish_ratio = b / (b + r),
\* 0.5 when both are zero; ratio < 0.4 is 10 b < 4 (b + r))
Classify(b, r, bounce_potential) ==
    LET t == b + r
        num == IF t > 0 THEN b ELSE 1
        den == IF t > 0 THEN t ELSE 2
    IN  IF bounce_potential = "oversold_bounce"
        THEN IF 10 * num < 4 * den
             THEN <<"oversold_bounce_risk", "moderate">>
             ELSE <<"oversold_with_bullish", "moderate">>
        ELSE IF bounce_potential = "overbought_pullback"
        THEN IF 10 * num > 6 * den
             THEN <<"overbought_pullback_risk", "moderate">>
             ELSE <<"overbought_with_bearish", "low">>
        ELSE IF 10 * num >= 7 * den THEN <<"bullish", "high">>
        ELSE IF 10 * num >= 5 * den THEN <<"slightly_bullish", "moderate">>
        ELSE IF 10 * num >= 3 * den THEN <<"neutral", "low">>
        ELSE <<"bearish", "very_low">>

\* lines 171-214: <<bullish_signals, bearish_signals, bounce_potential>>
SignalScores(rsi, macd_trend, ma_trend, volume_signal) ==
    LET rs == RsiScore(rsi)
        b == rs[1]
             + (IF macd_trend = "bullish" THEN 10 ELSE 0)
             + (IF ma_trend \in {"strong_bullish", "bullish"} THEN 10 ELSE 0)
             + (IF volume_signal = "bullish_volume" THEN 10 ELSE 0)
        r == rs[2]
             + (IF macd_trend = "bearish" THEN 10 ELSE 0)
             + (IF ma_trend \in {"strong_bearish", "bearish"} THEN 10 ELSE 0)
             + (IF volume_signal = "bearish_volume" THEN 10 ELSE 0)
    IN  <<b, r, rs[3]>>

\* lines 170-279 of get_technical_analysis; of the returned dict the fields
\* the strategy reads
Aggregate(rsi, macd_trend, ma_trend, volume_signal) ==
    LET sc == SignalScores(rsi, macd_trend, ma_trend, volume_signal)
        c == Classify(sc[1], sc[2], sc[3])
    IN  [sentiment |-> c[1], assignment_risk |-> c[2],
         bounce_potential |-> sc[3], error |-> None]

\* too little history, or an exception
TechnicalError ==
    [error |-> "Insufficient price history", assignment_risk |-> "unknown"]

\* get_technical_analysis: the history source fails, or delivers a history
\* whose indicators are aggregated
get_technical_analysis(history) ==
    IF history.outcome = "fail" THEN TechnicalError
    ELSE Aggregate(history.rsi, history.macd_trend, history.ma_trend,
                   history.volume_signal)

Histories ==
    {[outcome |-> "fail"]} \cup
    [outcome : {"ok"}, rsi : RSIValues, macd_trend : MACDTrends,
     ma_trend : MATrends, volume_signal : VolumeSignals]

\* every snapshot the technical collaborator can return
Snapshots == {get_technical_analysis(h) : h \in Histories}


-----------------------------------------------------------------------------
(* strategy_tools.py: strike selector *)

GetOr(dict, key, default) == IF key \in DOMAIN dict THEN dict[key] ELSE default

OversoldSentiments == {"oversold_bounce_risk", "oversold_with_bullish"}
OverboughtSentiments == {"overbought_pullback_risk", "overbought_with_bearish"}

ReasonOversold == "Stock is oversold (RSI < 30) with potential bounce."
ReasonOverbought == "Stock is overbought with pullback potential."
ReasonHigh == "Due to bullish momentum, recommending a higher strike."
ReasonModerate == "With mixed technical signals, recommending a slightly OTM strike."
ReasonLow == "With low assignment risk, recommending an ATM strike."
ReasonUnavailable == "Technical analysis unavailable. Selecting highest yield option."

\* the reason texts, and the expanded-range notice with the band it names
Reason(text) == [text |-> text]
ReasonExpanded(lo, hi) ==
    [text |-> "No options in preferred range. Selecting best available option.",
     min_otm_pct |-> lo, max_otm_pct |-> hi]

\* mutant of StrikePreference: the assignment risk is looked at before an
\* overbought sentiment
StrikePreference_RiskFirst(sentiment, assignment_risk) ==
    IF sentiment \in OversoldSentiments
    THEN [min_otm_pct |-> 2, max_otm_pct |-> 6, strategy |-> "balanced",
          reason |-> Reason(ReasonOversold), use_layered |-> TRUE]
    ELSE IF assignment_risk = "high"
    THEN [min_otm_pct |-> 3, max_otm_pct |-> 10, strategy |-> "defensive",
          reason |-> Reason(ReasonHigh), use_layered |-> FALSE]
    ELSE IF assignment_risk = "moderate"
    THEN [min_otm_pct |-> 1, max_otm_pct |-> 5, strategy |-> "balanced",
          reason |-> Reason(ReasonModerate), use_layered |-> TRUE]
    ELSE IF sentiment \in OverboughtSentiments
    THEN [min_otm_pct |-> 0, max_otm_pct |-> 3, strategy |-> "aggressive",
          reason |-> Reason(ReasonOverbought), use_layered |-> FALSE]
    ELSE [min_otm_pct |-> 0, max_otm_pct |-> 3, strategy |-> "aggressive",
          reason |-> Reason(ReasonLow), use_layered |-> FALSE]

\* lines 39-74: the strike preference, OTM band in whole percents
StrikePreference(sentiment, assignment_risk) ==
    IF sentiment \in OversoldSentiments
    THEN [min_otm_pct |-> 2, max_otm_pct |-> 6, strategy |-> "balanced",
          reason |-> Reason(ReasonOversold), use_layered |-> TRUE]
    ELSE IF sentiment \in OverboughtSentiments
    THEN [min_otm_pct |-> 0, max_otm_pct |-> 3, strategy |-> "aggressive",
          reason |-> Reason(ReasonOverbought), use_layered |-> FALSE]
    ELSE IF assignment_risk = "high"
    THEN [min_otm_pct |-> 3, max_otm_pct |-> 10, strategy |-> "defensive",
          reason |-> Reason(ReasonHigh), use_layered |-> FALSE]
    ELSE IF assignment_risk = "moderate"
    THEN [min_otm_pct |-> 1, max_otm_pct |-> 5, strategy |-> "balanced",
          reason |-> Reason(ReasonModerate), use_layered |-> TRUE]
    ELSE [min_otm_pct |-> 0, max_otm_pct |-> 3, strategy |-> "aggressive",
          reason |-> Reason(ReasonLow), use_layered |-> FALSE]

\* mutant of InBand: the upper bound of the band is excluded
InBand_Exclusive(opt, stock_price, lo, hi) ==
    /\ stock_price * (100 + lo) <= Get(opt, "strike") * 100
    /\ Get(opt, "strike") * 100 < stock_price * (100 + hi)

\* min_strike <= opt.get("strike", 0) <= max_strike, with
\* min_strike = stock_price * (1 + lo/100), max_strike likewise
InBand(opt, stock_price, lo, hi) ==
    /\ stock_price * (100 + lo) <= Get(opt, "strike") * 100
    /\ Get(opt, "strike") * 100 <= stock_price * (100 + hi)

\* mutant of PreferredOptions: the band is never widened
PreferredOptions_NoFallback(options, stock_price, lo, hi) ==
    SelectSeq(options, LAMBDA opt : InBand(opt, stock_price, lo, hi))

\* the options of the band, or all of them when the band holds none
PreferredOptions(options, stock_price, lo, hi) ==
    LET preferred == SelectSeq(options,
                               LAMBDA opt : InBand(opt, stock_price, lo, hi))
    IN  IF preferred = <<>> THEN options ELSE preferred

\* mutant of _select_strike_based_on_technicals: the best option is looked
\* for in the band only (the widening of lines 85-91 is missing)
_select_strike_based_on_technicals_BandOnly(options, stock_price, technical_analysis) ==
    LET assignment_risk == GetOr(technical_analysis, "assignment_risk", "moderate")
        sentiment == GetOr(technical_analysis, "sentiment", "neutral")
        bounce_potential == GetOr(technical_analysis, "bounce_potential", None)
        pref == StrikePreference(sentiment, assignment_risk)
        in_band == SelectSeq(options,
                       LAMBDA opt : InBand(opt, stock_price, pref.min_otm_pct,
                                           pref.max_otm_pct))
    IN  [option |-> BestLoop(in_band, stock_price, <<>>, InitialBest),
         strategy |-> pref.strategy,
         reason |-> pref.reason,
         assignment_risk |-> assignment_risk,
         sentiment |-> sentiment,
         bounce_potential |-> bounce_potential,
         use_layered |-> pref.use_layered]

_select_strike_based_on_technicals(options, stock_price, technical_analysis) ==
    LET assignment_risk == GetOr(technical_analysis, "assignment_risk", "moderate")
        sentiment == GetOr(technical_analysis, "sentiment", "neutral")
        bounce_potential == GetOr(technical_analysis, "bounce_potential", None)
        pref == StrikePreference(sentiment, assignment_risk)
        in_band == SelectSeq(options,
                       LAMBDA opt : InBand(opt, stock_price, pref.min_otm_pct,
                                           pref.max_otm_pct))
        preferred_options ==
            PreferredOptions(options, stock_price, pref.min_otm_pct,
                             pref.max_otm_pct)
    IN  [option |-> BestLoop(preferred_options, stock_price, <<>>, InitialBest),
         strategy |-> pref.strategy,
         reason |-> IF in_band = <<>>
                    THEN ReasonExpanded(pref.min_otm_pct, pref.max_otm_pct)
                    ELSE pref.reason,
         assignment_risk |-> assignment_risk,
         sentiment |-> sentiment,
         bounce_potential |-> bounce_potential,
         use_layered |-> pref.use_layered]

-----------------------------------------------------------------------------
(* strategy_tools.py: layering engine *)

Tier(name, pct, lo, hi) ==
    [name |-> name, pct |-> pct, otm_lo |-> lo, otm_hi |-> hi]

AllocOversold ==
    << Tier("Conservative", 40, 4, 8), Tier("Balanced", 40, 2, 4),
       Tier("Aggressive", 20, 0, 2) >>
AllocModerate ==
    << Tier("Conservative", 33, 3, 6), Tier("Balanced", 34, 1, 3),
       Tier("Aggressive", 33, 0, 1) >>
AllocDefault ==
    << Tier("Conservative", 30, 3, 6), Tier("Balanced", 40, 1, 3),
       Tier("Aggressive", 30, 0, 1) >>

\* lines 139-161
Allocations(sentiment, bounce_potential) ==
    IF sentiment \in OversoldSentiments THEN AllocOversold
    ELSE IF sentiment = "moderate" \/ bounce_potential # None THEN AllocModerate
    ELSE AllocDefault

\* mutant of Layer: the share of the contracts is rounded up
Layer_RoundsUp(alloc, options, stock_price, contracts) ==
    LET layer_contracts == Max(1, (contracts * alloc.pct + 99) \div 100)
        range_options ==
            PreferredOptions(options, stock_price, alloc.otm_lo, alloc.otm_hi)
        best_in_range == BestLoop(range_options, stock_price, <<>>, InitialBest)
    IN  IF best_in_range = <<>> THEN <<>>
        ELSE <<[name |-> alloc.name,
                contracts |-> layer_contracts,
                option |-> best_in_range[1],
                premium |-> best_in_range[1].premium * layer_contracts
                            * ContractSize]>>

\* lines 166-200: one tier, a list of zero or one layers
Layer(alloc, options, stock_price, contracts) ==
    LET layer_contracts == Max(1, (contracts * alloc.pct) \div 100)
        range_options ==
            PreferredOptions(options, stock_price, alloc.otm_lo, alloc.otm_hi)
        best_in_range == BestLoop(range_options, stock_price, <<>>, InitialBest)
    IN  IF best_in_range = <<>> THEN <<>>
        ELSE <<[name |-> alloc.name,
                contracts |-> layer_contracts,
                option |-> best_in_range[1],
                premium |-> best_in_range[1].premium * layer_contracts
                            * ContractSize]>>

RECURSIVE SumContracts(_)
SumContracts(layers) ==
    IF layers = <<>> THEN 0
    ELSE Head(layers).contracts + SumContracts(Tail(layers))

RECURSIVE SumPremium(_)
SumPremium(layers) ==
    IF layers = <<>> THEN 0
    ELSE Head(layers).premium + SumPremium(Tail(layers))

\* mutant of _create_layered_strategy: the minimum of three contracts (lines
\* 132-134) is not asked for
_create_layered_strategy_NoMinimum(options, stock_price, nshares, technical_analysis) ==
    LET contracts == nshares \div ContractSize
        sentiment == GetOr(technical_analysis, "sentiment", "neutral")
        bounce_potential == GetOr(technical_analysis, "bounce_potential", None)
        allocations == Allocations(sentiment, bounce_potential)
        layers == Layer(allocations[1], options, stock_price, contracts)
                  \o Layer(allocations[2], options, stock_price, contracts)
                  \o Layer(allocations[3], options, stock_price, contracts)
    IN  IF layers = <<>> THEN <<>>
        ELSE <<[layers |-> layers,
                total_contracts |-> SumContracts(layers),
                total_premium |-> SumPremium(layers)]>>

\* a list of zero (None) or one layered strategies
_create_layered_strategy(options, stock_price, nshares, technical_analysis) ==
    LET contracts == nshares \div ContractSize
        sentiment == GetOr(technical_analysis, "sentiment", "neutral")
        bounce_potential == GetOr(technical_analysis, "bounce_potential", None)
        allocations == Allocations(sentiment, bounce_potential)
        layers == Layer(allocations[1], options, stock_price, contracts)
                  \o Layer(allocations[2], options, stock_price, contracts)
                  \o Layer(allocations[3], options, stock_price, contracts)
    IN  IF contracts < MinLayerContracts THEN <<>>
        ELSE IF layers = <<>> THEN <<>>
        ELSE <<[layers |-> layers,
                total_contracts |-> SumContracts(layers),
                total_premium |-> SumPremium(layers)]>>


-----------------------------------------------------------------------------
(* strategy_tools.py: run_covered_call_strategy *)

ErrorResult(error_type, details) ==
    LET error == format_error_message(error_type, details)
    IN  [formatted_text |-> error.message, error |-> error.error_type]

\* lines 323-330
is_sane_option(opt, stock_price) ==
    LET bid == Get(opt, "bid")
        strike == Get(opt, "strike")
    IN  IF bid > stock_price * 100 THEN FALSE
        ELSE IF 2 * strike > 3 * stock_price /\ bid > 20 * stock_price
        THEN FALSE
        ELSE TRUE

IsOTM(opt, stock_price) == Get(opt, "strike") >= stock_price

\* mutant of SaneAndOTM: the sanity filter of lines 323-332 is left out
SaneAndOTM_SkipsSanity(options, stock_price, otm) ==
    IF otm THEN SelectSeq(options, LAMBDA opt : IsOTM(opt, stock_price))
    ELSE options

\* lines 332-341: the sanity filter, then the OTM filter when otm_only
SaneAndOTM(options, stock_price, otm) ==
    LET sane == SelectSeq(options, LAMBDA opt : is_sane_option(opt, stock_price))
    IN  IF otm THEN SelectSeq(sane, LAMBDA opt : IsOTM(opt, stock_price))
        ELSE sane

\* mutant of ChainStage: the check of lines 343-351 is missing, so the run
\* goes on with an empty candidate list
ChainStage_NoEmptyCheck(data, stock_price, otm) ==
    LET filtered == filter_options(data, min_days, max_days, min_open_interest)
        candidates == SaneAndOTM(filtered.filtered_options, stock_price, otm)
    IN  IF data.error # None
        THEN [returns |-> TRUE, result |-> ErrorResult("api_error", data.error)]
        ELSE IF data.options = <<>>
        THEN [returns |-> TRUE,
              result |-> ErrorResult("no_options", "No call options returned.")]
        ELSE IF filtered.error # None
        THEN [returns |-> TRUE,
              result |-> ErrorResult("calculation_error", filtered.error)]
        ELSE IF filtered.filtered_options = <<>>
        THEN [returns |-> TRUE,
              result |-> ErrorResult("no_liquid_options",
                  "No options met the 7-45 day and liquidity criteria.")]
        ELSE [returns |-> FALSE, candidates |-> candidates]

\* mutant of ChainStage: the error of lines 343-351 is typed no_options
ChainStage_WrongType(data, stock_price, otm) ==
    LET filtered == filter_options(data, min_days, max_days, min_open_interest)
        candidates == SaneAndOTM(filtered.filtered_options, stock_price, otm)
    IN  IF data.error # None
        THEN [returns |-> TRUE, result |-> ErrorResult("api_error", data.error)]
        ELSE IF data.options = <<>>
        THEN [returns |-> TRUE,
              result |-> ErrorResult("no_options", "No call options returned.")]
        ELSE IF filtered.error # None
        THEN [returns |-> TRUE,
              result |-> ErrorResult("calculation_error", filtered.error)]
        ELSE IF filtered.filtered_options = <<>>
        THEN [returns |-> TRUE,
              result |-> ErrorResult("no_liquid_options",
                  "No options met the 7-45 day and liquidity criteria.")]
        ELSE IF candidates = <<>>
        THEN [returns |-> TRUE,
              result |-> ErrorResult("no_options",
                  "No options met the 7-45 day, liquidity, and moneyness criteria.")]
        ELSE [returns |-> FALSE, candidates |-> candidates]

\* lines 276-351: what the run does with the option chain; a result when it
\* returns here, otherwise the candidates it goes on with
ChainStage(data, stock_price, otm) ==
    LET filtered == filter_options(data, min_days, max_days, min_open_interest)
        candidates == SaneAndOTM(filtered.filtered_options, stock_price, otm)
    IN  IF data.error # None
        THEN [returns |-> TRUE, result |-> ErrorResult("api_error", data.error)]
        ELSE IF data.options = <<>>
        THEN [returns |-> TRUE,
              result |-> ErrorResult("no_options", "No call options returned.")]
        ELSE IF filtered.error # None
        THEN [returns |-> TRUE,
              result |-> ErrorResult("calculation_error", filtered.error)]
        ELSE IF filtered.filtered_options = <<>>
        THEN [returns |-> TRUE,
              result |-> ErrorResult("no_liquid_options",
                  "No options met the 7-45 day and liquidity criteria.")]
        ELSE IF candidates = <<>>
        THEN [returns |-> TRUE,
              result |-> ErrorResult("no_liquid_options",
                  "No options met the 7-45 day, liquidity, and moneyness criteria.")]
        ELSE [returns |-> FALSE, candidates |-> candidates]

StandardSelection ==
    [strategy |-> "standard", reason |-> Reason(ReasonUnavailable),
     assignment_risk |-> "unknown", sentiment |-> "unknown",
     use_layered |-> FALSE]

\* mutant of SelectionStage: the fallback of lines 358-377 is missing, the
\* strike selector runs on the failed snapshot too
SelectionStage_NoFallback(options, stock_price, nshares, tech) ==
    LET strike_selection ==
            _select_strike_based_on_technicals(options, stock_price, tech)
    IN  IF strike_selection.option = <<>>
        THEN [error |-> "calculation_error",
              details |-> "No suitable options found for current market conditions."]
        ELSE [error |-> None,
              best_option |-> strike_selection.option[1],
              strike_selection |-> strike_selection,
              layered_strategy |->
                  IF strike_selection.use_layered /\ nshares >= LayeredMinShares
                  THEN _create_layered_strategy(options, stock_price, nshares, tech)
                  ELSE <<>>]

\* lines 357-398: the selection; error is the error type it returns with
SelectionStage(options, stock_price, nshares, tech) ==
    IF GetOr(tech, "error", None) # None
    THEN LET best == find_best_option(options, stock_price)
         IN  IF ~best.found \/ best.best_option = <<>>
             THEN [error |-> "calculation_error", details |-> best.error]
             ELSE [error |-> None,
                   best_option |-> best.best_option[1],
                   strike_selection |-> StandardSelection,
                   layered_strategy |-> <<>>]
    ELSE LET strike_selection ==
                 _select_strike_based_on_technicals(options, stock_price, tech)
         IN  IF strike_selection.option = <<>>
             THEN [error |-> "calculation_error",
                   details |-> "No suitable options found for current market conditions."]
             ELSE [error |-> None,
                   best_option |-> strike_selection.option[1],
                   strike_selection |-> strike_selection,
                   layered_strategy |->
                       IF strike_selection.use_layered
                          /\ nshares >= LayeredMinShares
                       THEN _create_layered_strategy(options, stock_price,
                                                     nshares, tech)
                       ELSE <<>>]

_format_layered_strategy(layered) ==
    <<[section |-> "layered", layers |-> layered.layers,
       total_contracts |-> layered.total_contracts,
       total_premium |-> layered.total_premium]>>

_format_integrated_technical_section(analysis, strike_selection) ==
    <<[section |-> "technical",
       sentiment |-> strike_selection.sentiment,
       assignment_risk |-> strike_selection.assignment_risk,
       strategy |-> strike_selection.strategy,
       reason |-> strike_selection.reason]>>

\* lines 399-466: outcome calculation and rendering
Render(sel, stock_price, nshares, tech) ==
    LET best_option == sel.best_option
        breakeven == calculate_breakeven(stock_price, best_option.premium)
        max_profit == calculate_max_profit(stock_price, best_option.strike,
                                           best_option.premium, nshares)
        recommendation == format_recommendation(stock_price, best_option,
                                                nshares, breakeven, max_profit)
        itm_warning == format_itm_warning(best_option.strike, stock_price)
    IN  IF breakeven.error # None
        THEN ErrorResult("calculation_error", breakeven.error)
        ELSE IF max_profit.error # None
        THEN ErrorResult("calculation_error", max_profit.error)
        ELSE IF recommendation.error # None
        THEN ErrorResult("calculation_error", recommendation.error)
        ELSE [formatted_text |->
                  recommendation.formatted_text
                  \o (IF itm_warning.is_itm /\ itm_warning.warning # <<>>
                      THEN itm_warning.warning ELSE <<>>)
                  \o (IF sel.layered_strategy # <<>>
                         /\ sel.layered_strategy[1].layers # <<>>
                      THEN _format_layered_strategy(sel.layered_strategy[1])
                      ELSE <<>>)
                  \o (IF GetOr(tech, "error", None) = None
                      THEN _format_integrated_technical_section(
                               tech, sel.strike_selection)
                      ELSE <<>>),
              error |-> None]

\* lines 353-466
SelectAndRender(options, stock_price, nshares, tech) ==
    LET sel == SelectionStage(options, stock_price, nshares, tech)
    IN  IF sel.error # None THEN ErrorResult(sel.error, sel.details)
        ELSE Render(sel, stock_price, nshares, tech)


-----------------------------------------------------------------------------
(* The request: run_covered_call_strategy(ticker, shares, otm_only), one    *)
(* step per external collaborator it consults.                             *)

\* share counts a caller passes
Shares == {-100, 0, 150, 200, 300, 1000}

\* what validate_ticker returns (stock_tools.py lines 23-54)
Validations ==
    { [valid |-> FALSE, has_options |-> FALSE, error |-> "not found"],
      [valid |-> TRUE,  has_options |-> FALSE, error |-> "no options available"],
      [valid |-> TRUE,  has_options |-> TRUE,  error |-> None] }

\* what get_stock_price returns (stock_tools.py lines 71-97); no price is -1
NoPrice == -1
PriceResults ==
    { [price |-> NoPrice, error |-> "Could not fetch price"] }
    \cup { [price |-> p, error |-> None] : p \in Prices }

\* what the upstream option-chain library does
Upstreams ==
    { [outcome |-> "raise"], [outcome |-> "no_expirations"] }
    \cup { [outcome |-> "rows", rows |-> rows] : rows \in SeqsUpTo(Rows, MaxChain) }

Unset == [unset |-> TRUE]
Pending == [formatted_text |-> <<>>, error |-> "pending"]

InitRun ==
    /\ pc = "start"
    /\ shares \in Shares
    /\ otm_only \in BOOLEAN
    /\ calls = <<>>
    /\ validation = Unset
    /\ price_data = Unset
    /\ options_data = Unset
    /\ filtered_options = <<>>
    /\ technical = Unset
    /\ selection = Unset
    /\ result = Pending

\* no rate limiter is in use
IdleBot ==
    /\ limiter = Unset
    /\ clock = 0
    /\ doc = Unset
    /\ inflight = <<>>
    /\ answers = <<>>

IdleCalls ==
    /\ cands = <<>>
    /\ cprice = 0
    /\ ctech = Unset
    /\ cperm = <<>>
    /\ cargs = Unset
    /\ cout = Unset

Init == InitRun /\ IdleCalls /\ IdleBot

InvalidShares(n) == n <= 0 \/ n % 100 # 0

\* lines 232-240
RejectShares ==
    /\ pc = "start"
    /\ InvalidShares(shares)
    /\ result' = ErrorResult("invalid_shares", "You provided shares.")
    /\ pc' = "done"
    /\ UNCHANGED <<shares, otm_only, calls, validation, price_data,
                   options_data, filtered_options, technical, selection>>
    /\ UNCHANGED callVars
    /\ UNCHANGED botVars

\* lines 242-261
ValidateTicker ==
    /\ pc = "start"
    /\ ~InvalidShares(shares)
    /\ \E v \in Validations :
          /\ validation' = v
          /\ calls' = Append(calls, "validate_ticker")
          /\ IF ~v.valid
             THEN /\ result' = ErrorResult("invalid_ticker", v.error)
                  /\ pc' = "done"
             ELSE IF ~v.has_options
             THEN /\ result' = ErrorResult("no_options", v.error)
                  /\ pc' = "done"
             ELSE /\ result' = result
                  /\ pc' = "price"
    /\ UNCHANGED <<shares, otm_only, price_data, options_data,
                   filtered_options, technical, selection>>
    /\ UNCHANGED callVars
    /\ UNCHANGED botVars

\* lines 263-273
GetStockPrice ==
    /\ pc = "price"
    /\ \E p \in PriceResults :
          /\ price_data' = p
          /\ calls' = Append(calls, "get_stock_price")
          /\ IF p.error # None \/ p.price = NoPrice
             THEN /\ result' = ErrorResult("api_error", p.error)
                  /\ pc' = "done"
             ELSE /\ result' = result
                  /\ pc' = "chain"
    /\ UNCHANGED <<shares, otm_only, validation, options_data,
                   filtered_options, technical, selection>>
    /\ UNCHANGED callVars
    /\ UNCHANGED botVars

\* lines 275-351
GetOptionsChain ==
    /\ pc = "chain"
    /\ \E u \in Upstreams :
          LET data == get_options_chain(u)
              stage == ChainStage(data, price_data.price, otm_only)
          IN  /\ options_data' = data
              /\ calls' = Append(calls, "get_options_chain")
              /\ IF stage.returns
                 THEN /\ result' = stage.result
                      /\ filtered_options' = <<>>
                      /\ pc' = "done"
                 ELSE /\ result' = result
                      /\ filtered_options' = stage.candidates
                      /\ pc' = "technical"
    /\ UNCHANGED <<shares, otm_only, validation, price_data, technical,
                   selection>>
    /\ UNCHANGED callVars
    /\ UNCHANGED botVars

\* lines 353-466
GetTechnicalAnalysis ==
    /\ pc = "technical"
    /\ \E t \in Snapshots :
          /\ technical' = t
          /\ calls' = Append(calls, "get_technical_analysis")
          /\ selection' = SelectionStage(filtered_options, price_data.price,
                                         shares, t)
          /\ result' = SelectAndRender(filtered_options, price_data.price,
                                       shares, t)
          /\ pc' = "done"
    /\ UNCHANGED <<shares, otm_only, validation, price_data, options_data,
                   filtered_options>>
    /\ UNCHANGED callVars
    /\ UNCHANGED botVars

Next ==
    \/ RejectShares
    \/ ValidateTicker
    \/ GetStockPrice
    \/ GetOptionsChain
    \/ GetTechnicalAnalysis

Spec == Init /\ [][Next]_vars


-----------------------------------------------------------------------------
(* Properties of the request (specification Spec). *)

Done == pc = "done"

CollaboratorOrder ==
    <<"validate_ticker", "get_stock_price", "get_options_chain",
      "get_technical_analysis">>

IsPrefix(s, t) == Len(s) <= Len(t) /\ \A i \in 1..Len(s) : s[i] = t[i]

Validated == Len(calls) >= 1
Priced == Len(calls) >= 2
Chained == Len(calls) >= 3
Analysed == Len(calls) >= 4

TickerFailed == Validated /\ (~validation.valid \/ ~validation.has_options)
PriceFailed == Priced /\ (price_data.error # None \/ price_data.price = NoPrice)

\* an option passes every filter of the pipeline
Survives(opt, stock_price, otm) ==
    /\ min_days <= opt.days_to_expiry /\ opt.days_to_expiry <= max_days
    /\ opt.open_interest >= min_open_interest
    /\ opt.bid > 0
    /\ opt.bid <= stock_price * 100
    /\ ~(2 * opt.strike > 3 * stock_price /\ opt.bid > 20 * stock_price)
    /\ (otm => opt.strike >= stock_price)

NoSurvivor ==
    \A i \in 1..Len(options_data.options) :
        ~Survives(options_data.options[i], price_data.price, otm_only)

ChainFailed ==
    Chained /\ (options_data.error # None \/ options_data.options = <<>>
                \/ NoSurvivor)

Sections(text) == {text[i].section : i \in 1..Len(text)}

\* C1: the collaborators are consulted in the order ticker validation, price,
\* option chain, technical snapshot, each at most once; invalid shares are
\* rejected with invalid_shares before any collaborator is called; a stage
\* that fails ends the request with an error at once, no later collaborator
\* being called, and the technical snapshot is never fetched when no option
\* survives the filters.
C1_LinearNoRetry ==
    /\ IsPrefix(calls, CollaboratorOrder)
    /\ InvalidShares(shares) =>
          /\ calls = <<>>
          /\ Done => result.error = "invalid_shares"
    /\ TickerFailed => Done /\ Len(calls) = 1 /\ result.error # None
    /\ PriceFailed => Done /\ Len(calls) = 2 /\ result.error # None
    /\ ChainFailed => Done /\ Len(calls) = 3 /\ result.error # None
    /\ Analysed => filtered_options # <<>>
    /\ ~Done => result = Pending

C1_Witness ==
    /\ Done /\ Chained /\ options_data.options # <<>> /\ NoSurvivor
    /\ calls = SubSeq(CollaboratorOrder, 1, 3)

ResultErrors ==
    {"invalid_shares", "invalid_ticker", "no_options", "no_liquid_options",
     "api_error", "calculation_error", None}

\* C2: every result's error is one of the six error types or null; a result
\* with an error carries only the explanation of that error type; a result
\* without error starts with the base recommendation and holds no error
\* explanation.
C2_ErrorXorSuccess ==
    Done =>
      /\ result.error \in ResultErrors
      /\ result.error # None =>
            /\ Len(result.formatted_text) = 1
            /\ result.formatted_text[1].section = "error"
            /\ result.formatted_text[1].explains = result.error
      /\ result.error = None =>
            /\ Len(result.formatted_text) >= 1
            /\ result.formatted_text[1].section = "recommendation"
            /\ "error" \notin Sections(result.formatted_text)

C2_Witness ==
    /\ Done /\ result.error = None
    /\ Sections(result.formatted_text)
         = {"recommendation", "itm_warning", "layered", "technical"}

C2_WitnessError ==
    Done /\ result.error = "no_liquid_options" /\ Len(calls) = 3

TechnicalFailed == Analysed /\ technical.error # None

\* C3: when the technical snapshot returns an error the run does not fail:
\* the option is the one find_best_option picks from the whole filtered set,
\* the strategy is 'standard', no layered strategy is computed for any share
\* count, no technical section is rendered and error is null.
C3_DegradedSelection ==
    TechnicalFailed =>
      LET best == find_best_option(filtered_options, price_data.price)
      IN  /\ best.found
          /\ result.error = None
          /\ selection.best_option = best.best_option[1]
          /\ result.formatted_text[1].strike = best.best_option[1].strike
          /\ result.formatted_text[1].expiration = best.best_option[1].expiration
          /\ selection.strike_selection.strategy = "standard"
          /\ selection.layered_strategy = <<>>
          /\ "layered" \notin Sections(result.formatted_text)
          /\ "technical" \notin Sections(result.formatted_text)

C3_Witness ==
    /\ TechnicalFailed /\ shares = 1000 /\ Len(filtered_options) >= 2
    /\ \E i \in 1..Len(filtered_options) :
          ~InBand(filtered_options[i], price_data.price, 0, 3)

\* the reasons the returned text shows
ReasonsShown(text) ==
    {text[i].reason.text : i \in {j \in 1..Len(text) : "reason" \in DOMAIN text[j]}}

\* C4: when the technical snapshot fails and a recommendation is returned,
\* the returned text says that technical analysis was unavailable.
C4_FailureReported ==
    (TechnicalFailed /\ result.error = None) =>
        ReasonUnavailable \in ReasonsShown(result.formatted_text)

\* what the code does instead: the reason is built and never shown
C4_FailureSilent ==
    (TechnicalFailed /\ result.error = None) =>
        /\ selection.strike_selection.reason.text = ReasonUnavailable
        /\ ReasonsShown(result.formatted_text) = {}

\* C5: with valid shares the error type names the failing stage.
C5_ErrorNamesStage ==
    (Done /\ ~InvalidShares(shares)) =>
      /\ (Validated /\ ~validation.valid) => result.error = "invalid_ticker"
      /\ (Validated /\ validation.valid /\ ~validation.has_options)
            => result.error = "no_options"
      /\ PriceFailed => result.error = "api_error"
      /\ (Chained /\ options_data.error # None) => result.error = "api_error"
      /\ (Chained /\ options_data.error = None /\ options_data.options = <<>>)
            => result.error = "no_options"
      /\ (Chained /\ options_data.options # <<>> /\ NoSurvivor)
            => result.error = "no_liquid_options"
      /\ (Chained /\ options_data.options # <<>> /\ ~NoSurvivor)
            => result.error \notin {"no_liquid_options", "no_options", "api_error"}

C5_Witness ==
    /\ Done /\ Chained /\ otm_only
    /\ result.error = "no_liquid_options"
    /\ \E i \in 1..Len(options_data.options) :
          Survives(options_data.options[i], price_data.price, FALSE)


-----------------------------------------------------------------------------
(* Direct calls of the selection functions, on candidate lists a caller can *)
(* pass: complete records, and a record without its "expiration" key, for  *)
(* which calculate_option_metrics returns an error.                        *)

Malformed(k, d, b, oi) ==
    [strike |-> k, days_to_expiry |-> d, bid |-> b, open_interest |-> oi]

Candidates ==
    { Opt(95,  "2025-02-15", 30, 800, 50),   \* in the money, highest yield
      Opt(100, "2025-02-15", 30, 300, 50),
      Opt(102, "2025-02-15", 30, 204, 50),   \* same yield as the 104 strike
      Opt(104, "2025-02-15", 30, 208, 50),
      Opt(108, "2025-01-23", 7,  400, 50),
      Opt(110, "2025-02-15", 30, 50,  50),
      Opt(106, "2025-01-16", 0,  100, 50),   \* expires today: return 0
      Malformed(102, 30, 500, 50) }

Sentiments ==
    OversoldSentiments \cup OverboughtSentiments
    \cup {"bullish", "slightly_bullish", "neutral", "bearish", "unknown"}

Risks == {"high", "moderate", "low", "very_low", "unknown"}

\* technical_analysis dicts: every (sentiment, assignment_risk) pair, and the
\* dict of a failed analysis
TechDicts ==
    [sentiment : Sentiments, assignment_risk : Risks, error : {None}]
    \cup {TechnicalError}

Computes(opt, stock_price) ==
    ~IsError(calculate_option_metrics(opt, stock_price))

Orderings(s) ==
    LET n == Len(s)
        bij == {f \in [1..n -> 1..n] : \A i, j \in 1..n : f[i] = f[j] => i = j}
    IN  {[i \in 1..n |-> s[f[i]]] : f \in bij}

IdleRun ==
    /\ pc = "idle"
    /\ shares = LayeredMinShares
    /\ otm_only = TRUE
    /\ calls = <<>>
    /\ validation = Unset
    /\ price_data = Unset
    /\ options_data = Unset
    /\ filtered_options = <<>>
    /\ technical = Unset
    /\ selection = Unset
    /\ result = Pending

InitSelect ==
    /\ IdleRun
    /\ IdleBot
    /\ cands \in SeqsUpTo(Candidates, MaxChain)
    /\ cprice \in Prices
    /\ ctech \in TechDicts
    /\ cperm = <<>>
    /\ cargs = Unset
    /\ cout = Unset

\* _select_strike_based_on_technicals(cands, cprice, ctech)
CallSelector ==
    /\ cout = Unset
    /\ cout' = [fn |-> "_select_strike_based_on_technicals",
                out |-> _select_strike_based_on_technicals(cands, cprice, ctech)]
    /\ UNCHANGED <<cands, cprice, ctech, cperm, cargs>>
    /\ UNCHANGED runVars
    /\ UNCHANGED botVars

\* lines 353-466 of run_covered_call_strategy on cands, cprice, shares, ctech
CallSelectAndRender ==
    /\ cout = Unset
    /\ cands # <<>>
    /\ cout' = [fn |-> "select_and_render",
                out |-> SelectAndRender(cands, cprice, shares, ctech)]
    /\ UNCHANGED <<cands, cprice, ctech, cperm, cargs>>
    /\ UNCHANGED runVars
    /\ UNCHANGED botVars

NextSelect == CallSelector \/ CallSelectAndRender

SpecSelect == InitSelect /\ [][NextSelect]_vars

InitBest ==
    /\ IdleRun
    /\ IdleBot
    /\ cands \in SeqsUpTo(Candidates, MaxChain)
    /\ cprice \in Prices
    /\ ctech = Unset
    /\ cperm \in Orderings(cands)
    /\ cargs = Unset
    /\ cout = Unset

\* find_best_option(cands, cprice) and find_best_option(cperm, cprice)
CallFindBest ==
    /\ cout = Unset
    /\ cout' = [fn |-> "find_best_option",
                out |-> find_best_option(cands, cprice),
                out_perm |-> find_best_option(cperm, cprice)]
    /\ UNCHANGED <<cands, cprice, ctech, cperm, cargs>>
    /\ UNCHANGED runVars
    /\ UNCHANGED botVars

NextBest == CallFindBest

SpecBest == InitBest /\ [][NextBest]_vars


-----------------------------------------------------------------------------
(* Properties of the selection functions (SpecSelect, SpecBest). *)

Selected == cout # Unset /\ cout.fn = "_select_strike_based_on_technicals"
Rendered == cout # Unset /\ cout.fn = "select_and_render"
Found == cout # Unset /\ cout.fn = "find_best_option"

SomeComputes(options, stock_price) ==
    \E i \in 1..Len(options) : Computes(options[i], stock_price)

C6_DegradedSkips ==
    (Rendered /\ ctech = TechnicalError) =>
      (SomeComputes(cands, cprice) <=> cout.out.error = None)

\* the strike preference table of the strike selector, first match first
PreferenceTable(sentiment, risk) ==
    CASE sentiment \in {"oversold_bounce_risk", "oversold_with_bullish"}
           -> <<2, 6, "balanced", TRUE>>
      [] sentiment \in {"overbought_pullback_risk", "overbought_with_bearish"}
           -> <<0, 3, "aggressive", FALSE>>
      [] risk = "high" /\ sentiment \notin OversoldSentiments \cup OverboughtSentiments
           -> <<3, 10, "defensive", FALSE>>
      [] risk = "moderate" /\ sentiment \notin OversoldSentiments \cup OverboughtSentiments
           -> <<1, 5, "balanced", TRUE>>
      [] OTHER -> <<0, 3, "aggressive", FALSE>>

\* the sentiment and risk a technical_analysis dict gives the selector
SentimentOf(tech) == IF "sentiment" \in DOMAIN tech THEN tech.sentiment ELSE "neutral"
RiskOf(tech) ==
    IF "assignment_risk" \in DOMAIN tech THEN tech.assignment_risk ELSE "moderate"

PctInBand(opt, stock_price, lo, hi) ==
    /\ (opt.strike - stock_price) * 100 >= lo * stock_price
    /\ (opt.strike - stock_price) * 100 <= hi * stock_price

NoneInBand(options, stock_price, lo, hi) ==
    \A i \in 1..Len(options) : ~PctInBand(options[i], stock_price, lo, hi)

\* C7: for every (sentiment, assignment_risk) pair the strike selector's
\* strategy and use_layered are those of the table, the band it names when it
\* expands the range is the table's band, and an option it returns from a
\* band that holds candidates lies in the table's band; use_layered is true
\* only for an oversold sentiment or a moderate risk without overbought
\* sentiment.
C7_PreferenceTable ==
    Selected =>
      LET row == PreferenceTable(SentimentOf(ctech), RiskOf(ctech))
          out == cout.out
      IN  /\ out.strategy = row[3]
          /\ out.use_layered = row[4]
          /\ out.use_layered <=>
                \/ SentimentOf(ctech) \in OversoldSentiments
                \/ /\ RiskOf(ctech) = "moderate"
                   /\ SentimentOf(ctech) \notin OverboughtSentiments
          /\ "min_otm_pct" \in DOMAIN out.reason =>
                /\ out.reason.min_otm_pct = row[1]
                /\ out.reason.max_otm_pct = row[2]
          /\ NoneInBand(cands, cprice, row[1], row[2])
                <=> "min_otm_pct" \in DOMAIN out.reason
          /\ (out.option # <<>> /\ ~NoneInBand(cands, cprice, row[1], row[2]))
                => PctInBand(out.option[1], cprice, row[1], row[2])

\* an overbought sentiment with a moderate risk: aggressive, not layered
C7_Witness ==
    /\ Selected
    /\ SentimentOf(ctech) = "overbought_pullback_risk"
    /\ RiskOf(ctech) = "moderate"
    /\ cout.out.strategy = "aggressive"
    /\ ~cout.out.use_layered
    /\ cout.out.option # <<>>
    /\ Len(cands) >= 2

AnnualizedReturn(opt, stock_price) ==
    calculate_option_metrics(opt, stock_price).annualized_return

\* C8: if a candidate's strike lies in the band (bounds included), an option
\* the selector returns has its strike in the band and the greatest
\* annualized_return of the in-band candidates; the selection is over all
\* candidates only if none is in the band, and exactly then the reason is the
\* expanded-range notice.
C8_BandSelection ==
    Selected =>
      LET out == cout.out
          row == PreferenceTable(SentimentOf(ctech), RiskOf(ctech))
          lo == row[1]
          hi == row[2]
          expanded == "min_otm_pct" \in DOMAIN out.reason
          pool == IF NoneInBand(cands, cprice, lo, hi)
                  THEN {i \in 1..Len(cands) : Computes(cands[i], cprice)}
                  ELSE {i \in 1..Len(cands) :
                           /\ Computes(cands[i], cprice)
                           /\ PctInBand(cands[i], cprice, lo, hi)}
      IN  /\ expanded <=> NoneInBand(cands, cprice, lo, hi)
          /\ out.option # <<>> =>
                /\ ~expanded => PctInBand(out.option[1], cprice, lo, hi)
                /\ \E i \in pool :
                      out.option[1] = calculate_option_metrics(cands[i], cprice)
                /\ \A i \in pool :
                      out.option[1].annualized_return
                          >= AnnualizedReturn(cands[i], cprice)
          /\ out.option = <<>> => pool = {}

\* a band holding a candidate while a candidate outside it yields more
C8_Witness ==
    /\ Selected
    /\ cout.out.option # <<>>
    /\ "min_otm_pct" \notin DOMAIN cout.out.reason
    /\ \E i \in 1..Len(cands) :
          /\ Computes(cands[i], cprice)
          /\ AnnualizedReturn(cands[i], cprice)
                > cout.out.option[1].annualized_return

C8_WitnessExpanded ==
    /\ Selected
    /\ cout.out.option # <<>>
    /\ "min_otm_pct" \in DOMAIN cout.out.reason

\* the first position of the greatest annualized_return among the candidates
\* whose metrics compute
FirstBest(options, stock_price) ==
    CHOOSE i \in 1..Len(options) :
        /\ Computes(options[i], stock_price)
        /\ \A j \in 1..Len(options) :
              Computes(options[j], stock_price) =>
                 /\ AnnualizedReturn(options[j], stock_price)
                       <= AnnualizedReturn(options[i], stock_price)
                 /\ (AnnualizedReturn(options[j], stock_price)
                       = AnnualizedReturn(options[i], stock_price)) => i <= j

\* C9: find_best_option returns found = true with the metrics of the
\* candidate of greatest annualized_return among those whose metrics compute,
\* the first in input order among equal ones (ITM or not); it returns
\* found = false with no option and an error exactly when the list is empty
\* or every candidate errors.
C9_FirstGreatest ==
    Found =>
      LET out == cout.out
      IN  /\ out.found <=> SomeComputes(cands, cprice)
          /\ out.found =>
                /\ out.error = None
                /\ out.best_option
                     = <<calculate_option_metrics(
                            cands[FirstBest(cands, cprice)], cprice)>>
          /\ ~out.found => out.best_option = <<>> /\ out.error # None

\* an ITM option wins, and one candidate is skipped
C9_Witness ==
    /\ Found /\ cout.out.found
    /\ cout.out.best_option[1].is_itm
    /\ \E i \in 1..Len(cands) : ~Computes(cands[i], cprice)
    /\ Len(cands) = 3

C9_WitnessNone ==
    Found /\ ~cout.out.found /\ cands # <<>>

\* two candidates at different positions have equal annualized_return
HasTie(options, stock_price) ==
    \E i, j \in 1..Len(options) :
        /\ i < j
        /\ Computes(options[i], stock_price)
        /\ Computes(options[j], stock_price)
        /\ AnnualizedReturn(options[i], stock_price)
             = AnnualizedReturn(options[j], stock_price)

\* C10: for two orderings of the same candidates find_best_option selects
\* the same strike unless two candidates have equal annualized_return; then
\* each ordering selects its first candidate of the greatest return.
C10_OrderStable ==
    Found =>
      /\ cout.out.found = cout.out_perm.found
      /\ (cout.out.found /\ ~HasTie(cands, cprice)) =>
            cout.out.best_option[1].strike = cout.out_perm.best_option[1].strike
      /\ cout.out_perm.found =>
            cout.out_perm.best_option[1]
              = calculate_option_metrics(cperm[FirstBest(cperm, cprice)], cprice)

\* a reordering that moves the winner, without a tie
C10_Witness ==
    /\ Found /\ cout.out.found
    /\ ~HasTie(cands, cprice)
    /\ Len(cands) = 3
    /\ FirstBest(cands, cprice) # FirstBest(cperm, cprice)

\* with a tie the two orderings select different strikes
C10_WitnessTie ==
    /\ Found /\ cout.out.found
    /\ HasTie(cands, cprice)
    /\ cout.out.best_option[1].strike # cout.out_perm.best_option[1].strike

-----------------------------------------------------------------------------
(* Rounding and comparison: the three selection loops called on a list and  *)
(* on a reordering of it (specification SpecRound).                        *)

\* candidates a caller can pass: two whose annualized returns differ and
\* round to the same hundredth (23.856 and 23.861), two of equal return,
\* and others
RoundCandidates ==
    { Opt(102, "2025-02-15", 30, 200, 50),
      Opt(103, "2025-02-15", 30, 202, 50),
      Opt(104, "2025-02-15", 30, 208, 50),
      Opt(101, "2025-02-15", 30, 202, 50),
      Opt(100, "2025-02-15", 30, 150, 50),
      Opt(106, "2025-02-15", 30, 100, 50) }

InitRound ==
    /\ IdleRun
    /\ IdleBot
    /\ cands \in SeqsUpTo(RoundCandidates, MaxChain)
    /\ cprice \in Prices
    /\ ctech \in Snapshots
    /\ cperm \in Orderings(cands)
    /\ cargs = Unset
    /\ cout = Unset

\* _select_strike_based_on_technicals on cands and on cperm
CallSelectorBoth ==
    /\ cout = Unset
    /\ cout' = [fn |-> "_select_strike_based_on_technicals",
                out |-> _select_strike_based_on_technicals(cands, cprice, ctech),
                out_perm |->
                    _select_strike_based_on_technicals(cperm, cprice, ctech)]
    /\ UNCHANGED <<cands, cprice, ctech, cperm, cargs>>
    /\ UNCHANGED runVars
    /\ UNCHANGED botVars

\* _create_layered_strategy on cands and on cperm
CallLayering ==
    /\ cout = Unset
    /\ cout' = [fn |-> "_create_layered_strategy",
                out |-> _create_layered_strategy(cands, cprice, shares, ctech),
                out_perm |->
                    _create_layered_strategy(cperm, cprice, shares, ctech)]
    /\ UNCHANGED <<cands, cprice, ctech, cperm, cargs>>
    /\ UNCHANGED runVars
    /\ UNCHANGED botVars

NextRound == CallFindBest \/ CallSelectorBoth \/ CallLayering

SpecRound == InitRound /\ [][NextRound]_vars

Layered == cout # Unset /\ cout.fn = "_create_layered_strategy"

\* the annualized return before rounding, (bid / strike * 100) / days * 365,
\* as a fraction <<numerator, denominator>> of hundredths of a percent
Unrounded(opt) ==
    IF opt.days_to_expiry > 0 /\ opt.strike > 0
    THEN <<opt.bid * 365, opt.strike * opt.days_to_expiry>>
    ELSE <<0, 1>>

Greater(x, y) == x[1] * y[2] > y[1] * x[2]

\* the positions whose unrounded return is strictly greater than that of
\* every other candidate of the list
StrictlyBest(options, stock_price) ==
    {i \in 1..Len(options) :
        /\ Computes(options[i], stock_price)
        /\ \A j \in 1..Len(options) :
              (j # i /\ Computes(options[j], stock_price))
                 => Greater(Unrounded(options[i]), Unrounded(options[j]))}

\* the selection made from pool is the strictly best candidate, if any
PicksStrictlyBest(picked, pool, stock_price) ==
    \A i \in StrictlyBest(pool, stock_price) :
        picked = <<calculate_option_metrics(pool[i], stock_price)>>

\* the candidates a band selects from
BandPool(options, stock_price, lo, hi) ==
    LET inside == SelectSeq(options,
                      LAMBDA opt : PctInBand(opt, stock_price, lo, hi))
    IN  IF inside = <<>> THEN options ELSE inside

\* C11: rounding does not influence comparisons: in find_best_option, the
\* strike selector and every layering tier, a candidate whose unrounded
\* annualized return is strictly greater than that of every other candidate
\* of the set selected from is the one selected, whatever the input order.
C11_UnroundedWins ==
    /\ Found =>
          /\ PicksStrictlyBest(cout.out.best_option, cands, cprice)
          /\ PicksStrictlyBest(cout.out_perm.best_option, cperm, cprice)
    /\ Selected =>
          LET row == PreferenceTable(SentimentOf(ctech), RiskOf(ctech))
          IN  /\ PicksStrictlyBest(cout.out.option,
                     BandPool(cands, cprice, row[1], row[2]), cprice)
              /\ PicksStrictlyBest(cout.out_perm.option,
                     BandPool(cperm, cprice, row[1], row[2]), cprice)
    /\ (Layered /\ cout.out # <<>>) =>
          LET table == Allocations(SentimentOf(ctech),
                                   GetOr(ctech, "bounce_potential", None))
          IN  \A k \in 1..Len(cout.out[1].layers) :
                 PicksStrictlyBest(<<cout.out[1].layers[k].option>>,
                     BandPool(cands, cprice, table[k].otm_lo,
                              table[k].otm_hi), cprice)

\* what the code does: the rounded returns are compared, and of candidates
\* whose returns round to the same hundredth the first in input order wins
C11_RoundedFirstWins ==
    Found =>
      /\ cout.out.found =>
            cout.out.best_option[1]
              = calculate_option_metrics(cands[FirstBest(cands, cprice)], cprice)
      /\ cout.out_perm.found =>
            cout.out_perm.best_option[1]
              = calculate_option_metrics(cperm[FirstBest(cperm, cprice)], cprice)

-----------------------------------------------------------------------------
(* calculate_option_metrics called on one option (specification            *)
(* SpecMetrics).                                                           *)

MetricStrikes == {-5, 0, 95, 100, 103}
MetricDays == {-1, 0, 1, 30, 45}
MetricBids == {0, 120, 333}
MetricPrices == {97, 100}

\* option dicts a caller can pass
MetricOptions ==
    {Opt(k, "2025-02-15", d, b, 50) :
        k \in MetricStrikes, d \in MetricDays, b \in MetricBids}
    \cup {Malformed(103, 30, 120, 50)}

InitMetrics ==
    /\ IdleRun
    /\ IdleBot
    /\ cands = <<>>
    /\ cprice \in MetricPrices
    /\ ctech = Unset
    /\ cperm = <<>>
    /\ cargs \in [option : MetricOptions]
    /\ cout = Unset

\* calculate_option_metrics(option, stock_price)
CallMetrics ==
    /\ cout = Unset
    /\ cout' = [fn |-> "calculate_option_metrics",
                out |-> calculate_option_metrics(cargs.option, cprice)]
    /\ UNCHANGED <<cands, cprice, ctech, cperm, cargs>>
    /\ UNCHANGED runVars
    /\ UNCHANGED botVars

NextMetrics == CallMetrics

SpecMetrics == InitMetrics /\ [][NextMetrics]_vars

Measured == cout # Unset /\ cout.fn = "calculate_option_metrics"

Abs(x) == IF x >= 0 THEN x ELSE - x

\* v is n / d rounded to the nearest integer (d > 0)
IsRounded(v, n, d) == 2 * Abs(v * d - n) <= d

\* C12: for an option with days_to_expiry > 0 and strike > 0 the metrics hold
\* annualized_return = (bid / strike * 100) / days_to_expiry * 365 rounded to
\* 2 places; for every complete option premium = bid, is_itm = (strike <
\* stock_price) and moneyness = (strike - stock_price) / stock_price * 100;
\* days_to_expiry = 0 gives annualized_return 0 and strike <= 0 gives
\* premium_yield 0, neither an error.
C12_MetricsFormula ==
    (Measured /\ RequiredKeys \subseteq DOMAIN cargs.option) =>
      LET o == cargs.option
          m == cout.out
      IN  /\ "error" \notin DOMAIN m
          /\ m.premium = o.bid
          /\ m.is_itm = (o.strike < cprice)
          /\ IsRounded(m.moneyness, (o.strike - cprice) * 10000, cprice)
          /\ (o.days_to_expiry > 0 /\ o.strike > 0) =>
                IsRounded(m.annualized_return, o.bid * 36500,
                          o.strike * o.days_to_expiry)
          /\ o.days_to_expiry = 0 => m.annualized_return = 0
          /\ o.strike <= 0 => m.premium_yield = 0

\* an option expiring today, with a bid: no error, return 0
C12_Witness ==
    /\ Measured
    /\ cargs.option.days_to_expiry = 0
    /\ cargs.option.strike > 0
    /\ cargs.option.bid > 0
    /\ "error" \notin DOMAIN cout.out
    /\ cout.out.annualized_return = 0

\* a return that rounding changes: 1.20 on the 103 strike over 45 days
C12_WitnessRounded ==
    /\ Measured
    /\ cargs.option = Opt(103, "2025-02-15", 45, 120, 50)
    /\ cout.out.annualized_return = 945
    /\ cout.out.annualized_return * 103 * 45 # 120 * 36500

-----------------------------------------------------------------------------
(* The filters called on a list of chain rows (specification SpecFilter).  *)

\* (min_days, max_days, min_open_interest) a caller passes: the defaults, a
\* one-day window, a higher liquidity floor; and the error of options_data
FilterArgs ==
    [min_days : {min_days}, max_days : {max_days},
     min_open_interest : {min_open_interest, 50},
     error : {None, "No options available"}]
    \cup [min_days : {30}, max_days : {30},
          min_open_interest : {min_open_interest}, error : {None}]

InitFilter ==
    /\ IdleRun
    /\ IdleBot
    /\ cands \in SeqsUpTo(Rows, MaxChain)
    /\ cprice \in Prices
    /\ ctech = Unset
    /\ cperm = <<>>
    /\ cargs \in FilterArgs
    /\ cout = Unset

\* the options_data dict of the call
OptionsData == [options |-> cands, error |-> cargs.error]

\* filter_options(options_data, min_days, max_days, min_open_interest)
CallFilter ==
    /\ cout = Unset
    /\ cout' = [fn |-> "filter_options",
                out |-> filter_options(OptionsData, cargs.min_days,
                                       cargs.max_days, cargs.min_open_interest)]
    /\ UNCHANGED <<cands, cprice, ctech, cperm, cargs>>
    /\ UNCHANGED runVars
    /\ UNCHANGED botVars

\* the three filters of lines 296-341, each on a list of options
WindowLiquidity(options) ==
    filter_options([options |-> options, error |-> cargs.error],
                   cargs.min_days, cargs.max_days,
                   cargs.min_open_interest).filtered_options
Sane(options) == SelectSeq(options, LAMBDA opt : is_sane_option(opt, cprice))
OTMOnly(options) == SelectSeq(options, LAMBDA opt : IsOTM(opt, cprice))

\* the filters applied to cands in the code's order, in other orders, and
\* twice
CallFilterOrders ==
    /\ cout = Unset
    /\ cout' = [fn |-> "filters",
                code_order |-> SaneAndOTM(WindowLiquidity(cands), cprice, TRUE),
                window_sane_otm |-> OTMOnly(Sane(WindowLiquidity(cands))),
                sane_window_otm |-> OTMOnly(WindowLiquidity(Sane(cands))),
                otm_sane_window |-> WindowLiquidity(Sane(OTMOnly(cands))),
                otm_window_sane |-> Sane(WindowLiquidity(OTMOnly(cands))),
                window_otm |-> OTMOnly(WindowLiquidity(cands)),
                otm_window |-> WindowLiquidity(OTMOnly(cands)),
                window |-> WindowLiquidity(cands),
                window_twice |-> WindowLiquidity(WindowLiquidity(cands)),
                sane |-> Sane(cands),
                sane_twice |-> Sane(Sane(cands)),
                otm |-> OTMOnly(cands),
                otm_twice |-> OTMOnly(OTMOnly(cands))]
    /\ UNCHANGED <<cands, cprice, ctech, cperm, cargs>>
    /\ UNCHANGED runVars
    /\ UNCHANGED botVars

NextFilter == CallFilter \/ CallFilterOrders

SpecFilter == InitFilter /\ [][NextFilter]_vars

Filtered == cout # Unset /\ cout.fn = "filter_options"
Ordered == cout # Unset /\ cout.fn = "filters"

\* C13: the options surviving window+liquidity, sanity and OTM are the same
\* in whatever order the filters are applied (window+liquidity then OTM
\* equals OTM then window+liquidity, sanity first equals window+liquidity
\* first), and a filter applied twice gives what it gives applied once.
C13_FilterOrder ==
    Ordered =>
      /\ cout.window_otm = cout.otm_window
      /\ cout.sane_window_otm = cout.window_sane_otm
      /\ cout.code_order = cout.window_sane_otm
      /\ cout.otm_sane_window = cout.code_order
      /\ cout.otm_window_sane = cout.code_order
      /\ cout.window_twice = cout.window
      /\ cout.sane_twice = cout.sane
      /\ cout.otm_twice = cout.otm

\* each filter drops an option another keeps, and one option survives all
C13_Witness ==
    /\ Ordered
    /\ Len(cands) = 3
    /\ Len(cout.code_order) = 1
    /\ Len(cout.window) = 2
    /\ Len(cout.otm) = 2
    /\ cout.window_otm # cout.window
    /\ cout.window_otm # cout.otm

\* the positions of cands that pass the window and liquidity conditions
KeptPositions ==
    {i \in 1..Len(cands) :
        /\ cargs.min_days <= cands[i].days_to_expiry
        /\ cands[i].days_to_expiry <= cargs.max_days
        /\ cands[i].open_interest >= cargs.min_open_interest
        /\ cands[i].bid > 0}

\* the k-th smallest position of KeptPositions
KeptPosition(k) ==
    CHOOSE i \in KeptPositions :
        Cardinality({j \in KeptPositions : j <= i}) = k

\* C14: filter_options keeps, in input order, exactly the options with
\* min_days <= days_to_expiry <= max_days, open_interest >=
\* min_open_interest and bid > 0; total_before_filter is the input count,
\* total_after_filter the kept count; an options_data with an error yields
\* an empty list and that error.
C14_FilterExact ==
    Filtered =>
      LET out == cout.out
      IN  /\ cargs.error = None =>
                /\ out.error = None
                /\ Len(out.filtered_options) = Cardinality(KeptPositions)
                /\ \A k \in 1..Len(out.filtered_options) :
                      out.filtered_options[k] = cands[KeptPosition(k)]
                /\ out.total_before_filter = Len(cands)
                /\ out.total_after_filter = Len(out.filtered_options)
          /\ cargs.error # None =>
                /\ out.filtered_options = <<>>
                /\ out.error = cargs.error

\* an option at each inclusive limit (45 days, open interest 10) is kept,
\* another is dropped between two kept ones
C14_Witness ==
    /\ Filtered
    /\ cargs.error = None
    /\ cargs.max_days = max_days
    /\ Len(cands) = 3
    /\ KeptPositions = {1, 3}
    /\ cands[1].days_to_expiry = cargs.max_days
    /\ cands[1].open_interest = cargs.min_open_interest
    /\ cout.out.total_before_filter = 3
    /\ cout.out.total_after_filter = 2

C14_WitnessError ==
    /\ Filtered
    /\ cargs.error # None
    /\ cands # <<>>
    /\ cout.out.filtered_options = <<>>

-----------------------------------------------------------------------------
(* get_technical_analysis called on a history with given indicators        *)
(* (specification SpecTech).                                               *)

InitTech ==
    /\ IdleRun
    /\ IdleBot
    /\ cands = <<>>
    /\ cprice \in Prices
    /\ ctech = Unset
    /\ cperm = <<>>
    /\ cargs \in Histories
    /\ cout = Unset

\* get_technical_analysis on the history cargs; bullish_signals and
\* bearish_signals are the fields of those names of the returned dict
CallTechnical ==
    /\ cout = Unset
    /\ cout' = IF cargs.outcome = "fail"
               THEN [fn |-> "get_technical_analysis",
                     out |-> get_technical_analysis(cargs)]
               ELSE LET sc == SignalScores(cargs.rsi, cargs.macd_trend,
                                           cargs.ma_trend, cargs.volume_signal)
                    IN  [fn |-> "get_technical_analysis",
                         out |-> get_technical_analysis(cargs),
                         bullish_signals |-> sc[1],
                         bearish_signals |-> sc[2]]
    /\ UNCHANGED <<cands, cprice, ctech, cperm, cargs>>
    /\ UNCHANGED runVars
    /\ UNCHANGED botVars

NextTech == CallTechnical

SpecTech == InitTech /\ [][NextTech]_vars

Aggregated ==
    cout # Unset /\ cout.fn = "get_technical_analysis" /\ cargs.outcome = "ok"

\* the reference aggregation, scores in tenths
RefBullish(h) ==
    (IF h.rsi < 35 THEN 5 ELSE 0)
    + (IF 55 < h.rsi /\ h.rsi <= 65 THEN 10 ELSE 0)
    + (IF h.macd_trend = "bullish" THEN 10 ELSE 0)
    + (IF h.ma_trend \in {"bullish", "strong_bullish"} THEN 10 ELSE 0)
    + (IF h.volume_signal = "bullish_volume" THEN 10 ELSE 0)

RefBearish(h) ==
    (IF h.rsi > 70 THEN 5 ELSE 0)
    + (IF 65 < h.rsi /\ h.rsi <= 70 THEN 3 ELSE 0)
    + (IF 35 <= h.rsi /\ h.rsi < 45 THEN 10 ELSE 0)
    + (IF h.macd_trend = "bearish" THEN 10 ELSE 0)
    + (IF h.ma_trend \in {"bearish", "strong_bearish"} THEN 10 ELSE 0)
    + (IF h.volume_signal = "bearish_volume" THEN 10 ELSE 0)

RefBounce(h) ==
    CASE h.rsi > 70 -> "overbought_pullback"
      [] h.rsi < 35 -> "oversold_bounce"
      [] OTHER -> None

\* bullish_ratio as a fraction <<numerator, denominator>>
RefRatio(h) ==
    IF RefBullish(h) + RefBearish(h) = 0 THEN <<1, 2>>
    ELSE <<RefBullish(h), RefBullish(h) + RefBearish(h)>>

\* ratio < p / 10 and ratio >= p / 10
RatioBelow(q, p) == 10 * q[1] < p * q[2]
RatioAtLeast(q, p) == 10 * q[1] >= p * q[2]

\* <<sentiment, assignment_risk>> of the reference
RefClass(h) ==
    LET q == RefRatio(h)
    IN  CASE RefBounce(h) = "oversold_bounce" /\ RatioBelow(q, 4)
               -> <<"oversold_bounce_risk", "moderate">>
          [] RefBounce(h) = "oversold_bounce" /\ RatioAtLeast(q, 4)
               -> <<"oversold_with_bullish", "moderate">>
          [] RefBounce(h) = "overbought_pullback" /\ ~RatioBelow(q, 6)
                                                  /\ ~(10 * q[1] = 6 * q[2])
               -> <<"overbought_pullback_risk", "moderate">>
          [] RefBounce(h) = "overbought_pullback"
               /\ (RatioBelow(q, 6) \/ 10 * q[1] = 6 * q[2])
               -> <<"overbought_with_bearish", "low">>
          [] RefBounce(h) = None /\ RatioAtLeast(q, 7)
               -> <<"bullish", "high">>
          [] RefBounce(h) = None /\ RatioBelow(q, 7) /\ RatioAtLeast(q, 5)
               -> <<"slightly_bullish", "moderate">>
          [] RefBounce(h) = None /\ RatioBelow(q, 5) /\ RatioAtLeast(q, 3)
               -> <<"neutral", "low">>
          [] RefBounce(h) = None /\ RatioBelow(q, 3)
               -> <<"bearish", "very_low">>

\* C15: for every (RSI, MACD trend, MA trend, volume signal) the scores,
\* the bounce flag, the sentiment and the assignment risk that
\* get_technical_analysis returns are those of the reference aggregation.
C15_AggregationReference ==
    Aggregated =>
      /\ cout.bullish_signals = RefBullish(cargs)
      /\ cout.bearish_signals = RefBearish(cargs)
      /\ cout.out.bounce_potential = RefBounce(cargs)
      /\ cout.out.sentiment = RefClass(cargs)[1]
      /\ cout.out.assignment_risk = RefClass(cargs)[2]
      /\ cout.out.error = None

\* RSI exactly 70 with three bullish indicators: 0.3 bearish, no flag,
\* ratio 3 / 3.3, bullish and high
C15_Witness ==
    /\ Aggregated
    /\ cargs.rsi = 70
    /\ cout.bullish_signals = 30
    /\ cout.bearish_signals = 3
    /\ cout.out.bounce_potential = None
    /\ cout.out.sentiment = "bullish"
    /\ cout.out.assignment_risk = "high"

\* no indicator speaks: ratio 0.5, slightly bullish
C15_WitnessNoSignal ==
    /\ Aggregated
    /\ cout.bullish_signals = 0
    /\ cout.bearish_signals = 0
    /\ cout.out.sentiment = "slightly_bullish"

\* oversold with every other indicator bearish: a moderate risk all the same
C15_WitnessOversold ==
    /\ Aggregated
    /\ cargs.rsi < 35
    /\ cout.bearish_signals = 30
    /\ cout.out.sentiment = "oversold_bounce_risk"
    /\ cout.out.assignment_risk = "moderate"

-----------------------------------------------------------------------------
(* The indicators called on a closing-price series (specification          *)
(* SpecIndicators).                                                        *)

\* first close, and the daily changes of a stretch, in dollars
StartPrices == {100}
DailyChanges == {-1, 1, 2, 5}

\* a series: its first close and the daily change of each stretch
SeriesArgs == [start : StartPrices, steps : [1..Segments -> DailyChanges]]

\* the stretch the i-th session (i >= 2) belongs to
SegmentOf(i) == ((i - 2) * Segments) \div (Sessions - 1) + 1

\* the change of the price over the sessions 2..i that lie in the
\* stretches k..Segments
RECURSIVE ChangeFrom(_, _, _)
ChangeFrom(arg, i, k) ==
    IF k > Segments THEN 0
    ELSE arg.steps[k] * Cardinality({j \in 2..i : SegmentOf(j) = k})
         + ChangeFrom(arg, i, k + 1)

PriceAt(arg, i) == arg.start + ChangeFrom(arg, i, 1)

\* hist["Close"]
Closes(arg) == [i \in 1..Sessions |-> PriceAt(arg, i)]

\* the histories a caller passes
CloseSeries == {[closes |-> Closes(arg)] : arg \in SeriesArgs}

InitIndicators ==
    /\ IdleRun
    /\ IdleBot
    /\ cands = <<>>
    /\ cprice \in Prices
    /\ ctech = Unset
    /\ cperm = <<>>
    /\ cargs \in CloseSeries
    /\ cout = Unset

\* lines 162-167: the indicators of the series
CallIndicators ==
    /\ cout = Unset
    /\ cout' = [fn |-> "indicators",
                rsi |-> calculate_rsi(cargs.closes),
                macd |-> calculate_macd(cargs.closes),
                mas |-> calculate_moving_averages(cargs.closes)]
    /\ UNCHANGED <<cands, cprice, ctech, cperm, cargs>>
    /\ UNCHANGED runVars
    /\ UNCHANGED botVars

NextIndicators == CallIndicators

SpecIndicators == InitIndicators /\ [][NextIndicators]_vars

Indicated == cout # Unset /\ cout.fn = "indicators"

\* every close is above the one before
Rising ==
    \A i \in 2..Len(cargs.closes) : cargs.closes[i] > cargs.closes[i - 1]

\* C16 as stated: for every monotonically rising closing-price series the
\* RSI is above 70, the moving-average trend is strong_bullish and the MACD
\* trend is bullish.
C16_RisingAllBullish ==
    (Indicated /\ Rising) =>
      /\ cout.rsi > 700
      /\ cout.mas.trend = "strong_bullish"
      /\ cout.macd.trend = "bullish"

\* C16 amended: for every strictly rising closing-price series the RSI is
\* 100 (above 70), the moving-average trend is strong_bullish and the MACD
\* line is positive (EMA12 above EMA26); the MACD trend is bullish only
\* with the MACD above its signal line.
C16_RisingIndicators ==
    (Indicated /\ Rising) =>
      /\ cout.rsi > 700
      /\ cout.rsi = 1000
      /\ cout.mas.trend = "strong_bullish"
      /\ cout.macd.macd > 0
      /\ cout.macd.trend = "bullish" =>
            /\ cout.macd.macd > cout.macd.signal
            /\ cout.macd.histogram > 0

\* a rise of one dollar every session: the MACD is above its signal line,
\* the histogram is falling, the trend is neutral
C16_Witness ==
    /\ Indicated
    /\ \A i \in 2..Len(cargs.closes) :
          cargs.closes[i] = cargs.closes[i - 1] + 1
    /\ cout.rsi = 1000
    /\ cout.mas.trend = "strong_bullish"
    /\ cout.macd.macd > cout.macd.signal
    /\ cout.macd.trend = "neutral"

\* a rise that gets faster at the end: the MACD trend is bullish
C16_WitnessBullish ==
    /\ Indicated /\ Rising
    /\ cout.macd.trend = "bullish"

-----------------------------------------------------------------------------
(* The layering engine called on a position of any size, and the            *)
(* orchestrator's selection and rendering (lines 353-466) on the share      *)
(* counts it lets through (specification SpecLayer).                        *)

\* share counts: every whole number of contracts up to MaxContracts, counts
\* that are no multiple of a contract, and a negative one
LayerShares ==
    {ContractSize * k : k \in 0..MaxContracts} \cup {-100, 150, 250, 299, 350}

\* candidates for a stock at 100: one at the money, strikes 1, 2 and 5
\* percent out of the money, and a record without "expiration" 4 percent out
LayerCandidates ==
    { Opt(100, "2025-02-15", 30, 300, 50),
      Opt(101, "2025-02-15", 30, 310, 50),
      Opt(102, "2025-02-15", 30, 250, 50),
      Opt(105, "2025-02-15", 30, 200, 50),
      Malformed(104, 30, 500, 50) }

\* technical_analysis dicts: the snapshots of get_technical_analysis, and a
\* dict a caller builds whose sentiment reads "moderate"
LayerTechs ==
    Snapshots
    \cup {[sentiment |-> "moderate", assignment_risk |-> "moderate",
           error |-> None]}

InitLayer ==
    /\ IdleRun
    /\ IdleBot
    /\ cands \in SeqsUpTo(LayerCandidates, MaxChain)
    /\ cprice \in Prices
    /\ ctech \in LayerTechs
    /\ cperm = <<>>
    /\ cargs \in [shares : LayerShares]
    /\ cout = Unset

\* _create_layered_strategy(cands, cprice, shares, ctech)
CallLayer ==
    /\ cout = Unset
    /\ cout' = [fn |-> "layer",
                out |-> _create_layered_strategy(cands, cprice, cargs.shares,
                                                 ctech)]
    /\ UNCHANGED <<cands, cprice, ctech, cperm, cargs>>
    /\ UNCHANGED runVars
    /\ UNCHANGED botVars

\* the candidates the filters of lines 296-341 hand on: complete records
Complete(options) ==
    \A i \in 1..Len(options) : RequiredKeys \subseteq DOMAIN options[i]

\* lines 353-466 of run_covered_call_strategy, reached with a valid share
\* count (line 232), a non-empty list of complete candidates (line 343) and
\* a snapshot of get_technical_analysis
CallOrchestrate ==
    /\ cout = Unset
    /\ ~InvalidShares(cargs.shares)
    /\ cands # <<>> /\ Complete(cands)
    /\ ctech \in Snapshots
    /\ cout' = [fn |-> "orchestrate",
                sel |-> SelectionStage(cands, cprice, cargs.shares, ctech),
                out |-> SelectAndRender(cands, cprice, cargs.shares, ctech)]
    /\ UNCHANGED <<cands, cprice, ctech, cperm, cargs>>
    /\ UNCHANGED runVars
    /\ UNCHANGED botVars

NextLayer == CallLayer \/ CallOrchestrate

SpecLayer == InitLayer /\ [][NextLayer]_vars

LayerCalled == cout # Unset /\ cout.fn = "layer"
Orchestrated == cout # Unset /\ cout.fn = "orchestrate"

\* the orchestrator computed, or rendered, a layered strategy
LayeringDone ==
    \/ cout.sel.error = None /\ cout.sel.layered_strategy # <<>>
    \/ "layered" \in Sections(cout.out.formatted_text)

\* C17: a layered strategy is computed and rendered only when the technical
\* snapshot succeeded, the strike selector set use_layered and shares >= 300;
\* _create_layered_strategy returns no result whenever shares // 100 < 3;
\* for a share count that is a positive multiple of 100 the orchestrator's
\* gate lets through exactly the counts the engine's own gate lets through.
C17_LayeringGates ==
    /\ (Orchestrated /\ LayeringDone) =>
          /\ ctech.error = None
          /\ _select_strike_based_on_technicals(cands, cprice, ctech).use_layered
          /\ cargs.shares >= 300
    /\ (LayerCalled /\ cargs.shares \div 100 < 3) => cout.out = <<>>
    /\ (Orchestrated /\ cout.sel.error = None
          /\ cout.sel.strike_selection.use_layered) =>
          /\ cargs.shares >= 300 <=> cout.sel.layered_strategy # <<>>
          /\ cargs.shares >= 300 <=>
                _create_layered_strategy(cands, cprice, cargs.shares, ctech) # <<>>

\* 300 shares, a snapshot of moderate risk: the layered section is rendered
C17_Witness ==
    /\ Orchestrated /\ cargs.shares = 300
    /\ "layered" \in Sections(cout.out.formatted_text)
    /\ Len(cout.sel.layered_strategy[1].layers) = 3

\* 200 shares handed to the engine with candidates it could use
C17_WitnessBelowMinimum ==
    /\ LayerCalled /\ cargs.shares = 200
    /\ Complete(cands) /\ cands # <<>>
    /\ cout.out = <<>>

\* 200 shares in the orchestrator with use_layered set: nothing is layered
C17_WitnessGate ==
    /\ Orchestrated /\ cargs.shares = 200
    /\ cout.sel.error = None
    /\ cout.sel.strike_selection.use_layered
    /\ cout.sel.layered_strategy = <<>>

\* the three allocation tables of lines 140-161
AllocationTables == {AllocOversold, AllocModerate, AllocDefault}

\* n is max(1, floor(contracts * pct / 100))
IsTierCount(n, contracts, pct) ==
    IF contracts * pct < 100 THEN n = 1
    ELSE 100 * n <= contracts * pct /\ contracts * pct < 100 * (n + 1)

\* the tier of a table that has the name of the layer
TierNamed(table, name) == table[CHOOSE k \in 1..3 : table[k].name = name]

\* the sum of the counts of a whole table is at most contracts
TableFits(table, contracts) ==
    LET count(k) ==
            CHOOSE n \in 1..contracts : IsTierCount(n, contracts, table[k].pct)
    IN  count(1) + count(2) + count(3) <= contracts

\* the contracts of the i-th tier retained, 0 if there is none
CountOf(layers, i) == IF i <= Len(layers) THEN layers[i].contracts ELSE 0

\* C18: in every layered strategy each tier's contract count is
\* max(1, floor(contracts * tier_pct)) for contracts = shares // 100 and the
\* tier's share in one of the three tables; for every contracts >= 3 the
\* counts of each table sum to at most contracts, so the strategy never
\* allocates more contracts than the position covers; the reported
\* total_contracts is the sum over the tiers retained.
C18_TierCounts ==
    (LayerCalled /\ cout.out # <<>>) =>
      LET contracts == cargs.shares \div 100
          layers == cout.out[1].layers
      IN  /\ contracts >= 3
          /\ \E table \in AllocationTables :
                \A i \in 1..Len(layers) :
                    IsTierCount(layers[i].contracts, contracts,
                                TierNamed(table, layers[i].name).pct)
          /\ \A table \in AllocationTables : TableFits(table, contracts)
          /\ cout.out[1].total_contracts
                = CountOf(layers, 1) + CountOf(layers, 2) + CountOf(layers, 3)
          /\ cout.out[1].total_contracts <= contracts
          /\ Len(layers) \in 1..3

\* 1000 shares, the 33/34/33 table: three tiers of three contracts, nine of
\* the ten contracts are allocated
C18_Witness ==
    /\ LayerCalled /\ cargs.shares = 1000 /\ cout.out # <<>>
    /\ Len(cout.out[1].layers) = 3
    /\ \A i \in 1..3 : cout.out[1].layers[i].contracts = 3
    /\ cout.out[1].total_contracts = 9

\* 300 shares, the 40/40/20 table: the third tier gets the minimum of one
C18_WitnessMinimum ==
    /\ LayerCalled /\ cargs.shares = 300 /\ cout.out # <<>>
    /\ SentimentOf(ctech) \in OversoldSentiments
    /\ Len(cout.out[1].layers) = 3
    /\ cout.out[1].total_contracts = 3

\* a tier is dropped: the total is that of the two tiers retained
C18_WitnessDropped ==
    /\ LayerCalled /\ cargs.shares = 1000 /\ cout.out # <<>>
    /\ Len(cout.out[1].layers) = 2
    /\ cout.out[1].total_contracts = 6

\* the positions of the candidates a tier selects from whose metrics
\* compute: those of its band, of the whole list when the band holds none
TierPool(alloc) ==
    IF NoneInBand(cands, cprice, alloc.otm_lo, alloc.otm_hi)
    THEN {i \in 1..Len(cands) : Computes(cands[i], cprice)}
    ELSE {i \in 1..Len(cands) :
             /\ Computes(cands[i], cprice)
             /\ PctInBand(cands[i], cprice, alloc.otm_lo, alloc.otm_hi)}

\* the layer is the tier alloc with a candidate of the greatest
\* annualized_return of the tier's pool
TierPicks(layer, alloc) ==
    /\ layer.name = alloc.name
    /\ \E i \in TierPool(alloc) :
          layer.option = calculate_option_metrics(cands[i], cprice)
    /\ \A i \in TierPool(alloc) :
          layer.option.annualized_return >= AnnualizedReturn(cands[i], cprice)
    /\ ~NoneInBand(cands, cprice, alloc.otm_lo, alloc.otm_hi) =>
          PctInBand(layer.option, cprice, alloc.otm_lo, alloc.otm_hi)

\* layers are the tiers of the table that have a viable option, in the
\* table's order, each with its pick
TiersOf(layers, table) ==
    LET kept == SelectSeq(<<1, 2, 3>>, LAMBDA k : TierPool(table[k]) # {})
    IN  /\ Len(layers) = Len(kept)
        /\ \A i \in 1..Len(kept) : TierPicks(layers[i], table[kept[i]])

\* C19: each tier selects the candidate of the greatest annualized_return
\* among the candidates whose strike lies in its band, over the whole list
\* only when the band holds no candidate; a tier without a viable option is
\* dropped and there is no result only if every tier is dropped; when the
\* list is not empty and every candidate's metrics compute the result has
\* the three tiers Conservative, Balanced, Aggressive in this order.
C19_TierSelection ==
    (LayerCalled /\ cargs.shares \div 100 >= 3) =>
      /\ \E table \in AllocationTables :
            TiersOf(IF cout.out = <<>> THEN <<>> ELSE cout.out[1].layers, table)
      /\ cout.out # <<>> => cout.out[1].layers # <<>>
      /\ (cands # <<>> /\ Complete(cands)) =>
            /\ cout.out # <<>>
            /\ Len(cout.out[1].layers) = 3
            /\ cout.out[1].layers[1].name = "Conservative"
            /\ cout.out[1].layers[2].name = "Balanced"
            /\ cout.out[1].layers[3].name = "Aggressive"

\* three tiers with three different strikes, each the best of its own band;
\* the candidate of the greatest return lies in the third band only
C19_Witness ==
    /\ LayerCalled /\ cout.out # <<>>
    /\ Len(cout.out[1].layers) = 3
    /\ cout.out[1].layers[1].option.strike = 105
    /\ cout.out[1].layers[2].option.strike = 102
    /\ cout.out[1].layers[3].option.strike = 101

\* a band that holds no candidate: its tier selects from the whole list
C19_WitnessFallback ==
    /\ LayerCalled /\ cout.out # <<>>
    /\ Len(cands) >= 2
    /\ Len(cout.out[1].layers) = 3
    /\ \A i \in 1..Len(cands) : ~PctInBand(cands[i], cprice, 3, 8)
    /\ cout.out[1].layers[1].option.strike = 101

\* the only candidate of the first band has no metrics: that tier is dropped
C19_WitnessDropped ==
    /\ LayerCalled /\ cout.out # <<>>
    /\ Len(cout.out[1].layers) = 2
    /\ cout.out[1].layers[1].name = "Balanced"

\* every tier is dropped: no result
C19_WitnessNone ==
    /\ LayerCalled /\ cargs.shares = 1000
    /\ cands # <<>>
    /\ cout.out = <<>>

\* the three layers are the tiers of the table: its names, its shares of
\* the contracts and its bands
UsesTable(layers, table, contracts) ==
    /\ Len(layers) = 3
    /\ \A k \in 1..3 :
          /\ IsTierCount(layers[k].contracts, contracts, table[k].pct)
          /\ TierPicks(layers[k], table[k])

BounceOf(tech) ==
    IF "bounce_potential" \in DOMAIN tech THEN tech.bounce_potential ELSE None

\* C20: the allocation table follows the classification: an oversold
\* sentiment uses 40/40/20 over [4-8], [2-4], [0-2]; a moderate
\* classification or a set bounce flag uses 33/34/33 over [3-6], [1-3],
\* [0-1]; every other case uses 30/40/30 over the same bands; in particular
\* every snapshot of moderate risk that reaches layering through the
\* orchestrator is split 33/34/33.
C20_AllocationTable ==
    (Orchestrated /\ cout.sel.error = None /\ cout.sel.layered_strategy # <<>>) =>
      LET layers == cout.sel.layered_strategy[1].layers
          contracts == cargs.shares \div 100
      IN  IF SentimentOf(ctech) \in OversoldSentiments
          THEN UsesTable(layers, AllocOversold, contracts)
          ELSE IF RiskOf(ctech) = "moderate" \/ BounceOf(ctech) # None
          THEN UsesTable(layers, AllocModerate, contracts)
          ELSE UsesTable(layers, AllocDefault, contracts)

\* what the code does: the 33/34/33 table is used when the sentiment reads
\* "moderate", which no snapshot's sentiment does, or the bounce flag is set;
\* a snapshot of moderate risk without the flag is split 30/40/30
C20_TableBySentimentText ==
    /\ (Orchestrated /\ cout.sel.error = None
          /\ cout.sel.layered_strategy # <<>>
          /\ SentimentOf(ctech) \notin OversoldSentiments) =>
          /\ RiskOf(ctech) = "moderate" /\ BounceOf(ctech) = None
          /\ SentimentOf(ctech) = "slightly_bullish"
          /\ UsesTable(cout.sel.layered_strategy[1].layers, AllocDefault,
                       cargs.shares \div 100)
    /\ (LayerCalled /\ cout.out # <<>> /\ Complete(cands)) =>
          UsesTable(cout.out[1].layers,
                    IF SentimentOf(ctech) \in OversoldSentiments
                    THEN AllocOversold
                    ELSE IF SentimentOf(ctech) = "moderate"
                            \/ BounceOf(ctech) # None
                    THEN AllocModerate
                    ELSE AllocDefault,
                    cargs.shares \div 100)

\* the tiers of the table whose band-membership test (line 173) the
\* candidate passes
TiersHolding(table, opt) ==
    {k \in 1..3 : InBand(opt, cprice, table[k].otm_lo, table[k].otm_hi)}

\* C21: within each allocation table the bands of the three tiers do not
\* overlap: no candidate strike passes the band-membership test of more than
\* one tier of the same table.
C21_BandsDisjoint ==
    LayerCalled =>
      \A table \in AllocationTables :
          \A i \in 1..Len(cands) :
              Cardinality(TiersHolding(table, cands[i])) <= 1

\* what the code does: both ends of a band are included, so a strike passes
\* two tests exactly when it lies on the boundary two neighbouring bands
\* share, and never passes three
C21_BandsShareEndpoints ==
    LayerCalled =>
      \A table \in AllocationTables :
          \A i \in 1..Len(cands) :
              LET held == TiersHolding(table, cands[i])
              IN  /\ Cardinality(held) <= 2
                  /\ Cardinality(held) = 2 =>
                        \E k \in held :
                            /\ k + 1 \in held
                            /\ table[k].otm_lo = table[k + 1].otm_hi
                            /\ (cands[i].strike - cprice) * 100
                                  = table[k].otm_lo * cprice

-----------------------------------------------------------------------------
(* Direct calls of the outcome calculator (specification SpecOutcome):      *)
(* stock price and strike in whole dollars, premium in cents.              *)

OutcomePrices == {-100, 0, 100, 145, 150}
OutcomeStrikes == {95, 100, 105, 150}
OutcomePremiums == {0, 120, 200, 300}
OutcomeShares == {-100, 0, 100, 150, 300, 500}

InitOutcome ==
    /\ IdleRun
    /\ IdleBot
    /\ cands = <<>>
    /\ cprice \in OutcomePrices
    /\ ctech = Unset
    /\ cperm = <<>>
    /\ cargs \in [strike : OutcomeStrikes, premium : OutcomePremiums,
                  shares : OutcomeShares]
    /\ cout = Unset

\* calculate_max_profit(cprice, strike, premium, shares)
CallMaxProfit ==
    /\ cout = Unset
    /\ cout' = [fn |-> "calculate_max_profit",
                out |-> calculate_max_profit(cprice, cargs.strike,
                                             cargs.premium, cargs.shares)]
    /\ UNCHANGED <<cands, cprice, ctech, cperm, cargs>>
    /\ UNCHANGED runVars
    /\ UNCHANGED botVars

\* calculate_breakeven(cprice, premium)
CallBreakeven ==
    /\ cout = Unset
    /\ cout' = [fn |-> "calculate_breakeven",
                out |-> calculate_breakeven(cprice, cargs.premium)]
    /\ UNCHANGED <<cands, cprice, ctech, cperm, cargs>>
    /\ UNCHANGED runVars
    /\ UNCHANGED botVars

NextOutcome == CallMaxProfit \/ CallBreakeven

SpecOutcome == InitOutcome /\ [][NextOutcome]_vars

MaxProfitCalled == cout # Unset /\ cout.fn = "calculate_max_profit"
BreakevenCalled == cout # Unset /\ cout.fn = "calculate_breakeven"

\* C22: for every stock price > 0 and shares a positive multiple of 100
\* calculate_max_profit returns contracts = shares / 100,
\* capital_gain_per_share = strike - price, total_capital_gain = that times
\* shares, total_premium = premium * shares, total_max_profit = their sum and
\* max_return_percent = total_max_profit / (price * shares) * 100, to two
\* places.
C22_MaxProfit ==
    (MaxProfitCalled /\ cprice > 0
        /\ cargs.shares > 0 /\ cargs.shares % 100 = 0) =>
      LET out == cout.out
      IN  /\ out.error = None
          /\ out.contracts * 100 = cargs.shares
          /\ out.capital_gain_per_share = 100 * cargs.strike - 100 * cprice
          /\ out.total_capital_gain
                = cargs.shares * (100 * cargs.strike - 100 * cprice)
          /\ out.total_premium = cargs.shares * cargs.premium
          /\ out.total_max_profit - out.total_premium = out.total_capital_gain
          /\ IsRounded(out.max_return_percent,
                       100 * (cargs.shares * (100 * cargs.strike - 100 * cprice)
                              + cargs.shares * cargs.premium),
                       cprice * cargs.shares)

\* price 145, strike 150, premium 3.00, 500 shares: 5 contracts, 5.00 a
\* share, 2500.00, 1500.00, 4000.00 and 5.52 percent
C22_Witness ==
    /\ MaxProfitCalled
    /\ cprice = 145 /\ cargs.strike = 150
    /\ cargs.premium = 300 /\ cargs.shares = 500
    /\ cout.out.contracts = 5
    /\ cout.out.capital_gain_per_share = 500
    /\ cout.out.total_capital_gain = 250000
    /\ cout.out.total_premium = 150000
    /\ cout.out.total_max_profit = 400000
    /\ cout.out.max_return_percent = 552

\* a strike below the price: the capital gain is a loss
C22_WitnessLoss ==
    /\ MaxProfitCalled /\ cprice = 100 /\ cargs.strike = 95
    /\ cargs.shares = 300 /\ cargs.premium = 120
    /\ cout.out.total_max_profit = -114000

\* C23: calculate_breakeven returns breakeven = stock price - premium and
\* downside protection = premium / stock price * 100, to two places, and
\* returns an error instead of values whenever the stock price is <= 0,
\* zero and negative alike.
C23_Breakeven ==
    BreakevenCalled =>
      IF cprice <= 0
      THEN cout.out.error # None /\ "breakeven_price" \notin DOMAIN cout.out
      ELSE /\ cout.out.error = None
           /\ cout.out.breakeven_price + cargs.premium = 100 * cprice
           /\ IsRounded(cout.out.downside_protection_percent,
                        100 * cargs.premium, cprice)

\* what the code does: only the division by a zero price fails; a negative
\* price yields a negative breakeven and a protection of the opposite sign
C23_BreakevenZeroOnly ==
    BreakevenCalled =>
      /\ cout.out.error # None <=> cprice = 0
      /\ cprice > 0 =>
            /\ cout.out.breakeven_price + cargs.premium = 100 * cprice
            /\ IsRounded(cout.out.downside_protection_percent,
                         100 * cargs.premium, cprice)
      /\ cprice < 0 =>
            /\ cout.out.breakeven_price < 0
            /\ cout.out.downside_protection_percent <= 0

-----------------------------------------------------------------------------
(* Properties of the rendered recommendation (specification Spec). *)

Recommended == Done /\ result.error = None

\* C24: the ITM warning is appended to a successful recommendation if and
\* only if the selected strike is strictly below the stock price, a strike
\* equal to the price getting none; format_itm_warning returns is_itm = true
\* with a warning exactly when strike < stock_price.
C24_ItmWarning ==
    Recommended =>
      LET strike == selection.best_option.strike
          warned == format_itm_warning(strike, price_data.price)
      IN  /\ result.formatted_text[1].strike = strike
          /\ "itm_warning" \in Sections(result.formatted_text)
                <=> strike < price_data.price
          /\ (warned.is_itm /\ warned.warning # <<>>)
                <=> strike < price_data.price
          /\ warned.is_itm <=> warned.warning # <<>>

\* an in-the-money strike is recommended with the warning
C24_Witness ==
    /\ Recommended
    /\ selection.best_option.strike < price_data.price
    /\ result.formatted_text[2].section = "itm_warning"

\* a strike equal to the price is recommended without it
C24_WitnessAtTheMoney ==
    /\ Recommended
    /\ selection.best_option.strike = price_data.price
    /\ "itm_warning" \notin Sections(result.formatted_text)

\* the positions of the chain whose option survives all filters
Survivors ==
    {i \in 1..Len(options_data.options) :
        Survives(options_data.options[i], price_data.price, otm_only)}

\* C25: if exactly one option of the chain survives all filters, then for
\* every technical outcome (any classification, or a failed snapshot) the run
\* succeeds with error null and recommends that option, showing its strike
\* and its annualized return (bid / strike * 100) / days * 365, with no ITM
\* warning when the strike is above the price.
C25_SingleSurvivor ==
    (Done /\ Chained /\ options_data.error = None
        /\ Cardinality(Survivors) = 1) =>
      LET opt == options_data.options[CHOOSE i \in Survivors : TRUE]
          shown == result.formatted_text[1]
      IN  /\ Analysed
          /\ result.error = None
          /\ shown.section = "recommendation"
          /\ shown.strike = opt.strike
          /\ shown.expiration = opt.expiration
          /\ shown.premium = opt.bid
          /\ IsRounded(shown.annualized_return, opt.bid * 36500,
                       opt.strike * opt.days_to_expiry)
          /\ opt.strike > price_data.price =>
                "itm_warning" \notin Sections(result.formatted_text)

\* price 100, the only survivor of a longer chain is the 103 strike with bid
\* 1.20 and 45 days: it is recommended with 9.45 percent
C25_Witness ==
    /\ Done /\ Chained /\ Cardinality(Survivors) = 1
    /\ Len(options_data.options) >= 2
    /\ result.error = None
    /\ result.formatted_text[1].strike = 103
    /\ result.formatted_text[1].annualized_return = 945
    /\ technical.error = None

\* the only survivor lies outside the band the snapshot asks for
C25_WitnessExpanded ==
    /\ Done /\ Chained /\ Cardinality(Survivors) = 1
    /\ result.error = None /\ technical.error = None
    /\ "min_otm_pct" \in DOMAIN selection.strike_selection.reason
    /\ result.formatted_text[1].strike = 108

C25_WitnessDegraded ==
    /\ Done /\ Chained /\ Cardinality(Survivors) = 1
    /\ TechnicalFailed
    /\ result.formatted_text[1].strike = 103

C25_WitnessLayered ==
    /\ Done /\ Chained /\ Cardinality(Survivors) = 1
    /\ result.error = None
    /\ "layered" \in Sections(result.formatted_text)

\* C26: the option a successful run recommends has the highest annualized
\* return among all options that survive the filters, for every technical
\* classification.
C26_HighestYield ==
    Recommended =>
      \A i \in Survivors :
          result.formatted_text[1].annualized_return
              >= AnnualizedReturn(options_data.options[i], price_data.price)

\* what the code does: the recommended option is the best of the band the
\* classification asks for whenever that band holds a survivor, and the best
\* of all survivors only when the band is empty or the snapshot failed
C26_HighestOfBand ==
    Recommended =>
      LET row == PreferenceTable(SentimentOf(technical), RiskOf(technical))
          inside == {i \in Survivors :
                        PctInBand(options_data.options[i], price_data.price,
                                  row[1], row[2])}
          pool == IF technical.error # None \/ inside = {}
                  THEN Survivors ELSE inside
      IN  \A i \in pool :
              result.formatted_text[1].annualized_return
                  >= AnnualizedReturn(options_data.options[i], price_data.price)

\* the metrics are those of an option of the chain, and that option meets
\* every condition of the filters
FullyFiltered(metrics) ==
    /\ \E i \in 1..Len(options_data.options) :
          metrics = calculate_option_metrics(options_data.options[i],
                                             price_data.price)
    /\ 7 <= metrics.days_to_expiry /\ metrics.days_to_expiry <= 45
    /\ metrics.open_interest >= 10
    /\ 0 < metrics.premium /\ metrics.premium <= 100 * price_data.price
    /\ ~(10 * metrics.strike > 15 * price_data.price
         /\ 10 * metrics.premium > 200 * price_data.price)
    /\ otm_only => metrics.strike >= price_data.price

\* the layers the result renders
LayersShown ==
    LET text == result.formatted_text
        at == {i \in 1..Len(text) : text[i].section = "layered"}
    IN  IF at = {} THEN <<>> ELSE text[CHOOSE i \in at : TRUE].layers

\* C27: in every successful result the recommended option and every option
\* of the layered strategy is a member of the fully filtered set, on every
\* selection path: 7 <= days_to_expiry <= 45, open_interest >= 10,
\* 0 < bid <= stock price, not (strike > 1.5 * price and bid > 0.2 * price),
\* and strike >= price when otm_only; so with otm_only no result carries an
\* ITM warning and the breakeven lies in [0, stock price).
C27_ResultsFiltered ==
    Recommended =>
      LET shown == result.formatted_text[1]
      IN  /\ FullyFiltered(selection.best_option)
          /\ shown.strike = selection.best_option.strike
          /\ shown.expiration = selection.best_option.expiration
          /\ shown.premium = selection.best_option.premium
          /\ \A k \in 1..Len(LayersShown) : FullyFiltered(LayersShown[k].option)
          /\ selection.layered_strategy # <<>> =>
                LayersShown = selection.layered_strategy[1].layers
          /\ otm_only =>
                /\ "itm_warning" \notin Sections(result.formatted_text)
                /\ 0 <= shown.breakeven_price
                /\ shown.breakeven_price < 100 * price_data.price

\* a layered result from a chain that also holds options the filters drop,
\* one tier taking its option from the whole list
C27_Witness ==
    /\ Recommended /\ otm_only
    /\ Len(LayersShown) = 3
    /\ Cardinality(Survivors) < Len(options_data.options)
    /\ \E k \in 1..3 : LayersShown[k].option.strike # LayersShown[1].option.strike
    /\ ~PctInBand(LayersShown[1].option, price_data.price, 3, 8)

\* a degraded selection next to an option with a bid above the stock price
C27_WitnessDegraded ==
    /\ Recommended /\ TechnicalFailed
    /\ \E i \in 1..Len(options_data.options) :
          options_data.options[i].bid > 100 * price_data.price

\* an expanded-range selection
C27_WitnessExpanded ==
    /\ Recommended /\ technical.error = None
    /\ "min_otm_pct" \in DOMAIN selection.strike_selection.reason
    /\ Cardinality(Survivors) < Len(options_data.options)

-----------------------------------------------------------------------------
(* telegram_bot/rate_limiter.py: RateLimiter.is_allowed for one (platform,  *)
(* user), called by concurrent webhook invocations (specification           *)
(* SpecLimiter).  Times are whole seconds.                                  *)

\* the invocations that can be inside is_allowed at the same time
Callers == {1, 2}

\* RateLimiter.__init__
Limiters == [max_requests : 1..MaxRequests, window_seconds : 2..MaxWindow]

NoDocument == [exists |-> FALSE]

\* an invocation that is not inside is_allowed
Outside == [entered |-> FALSE]

InitLimiter ==
    /\ IdleRun
    /\ IdleCalls
    /\ limiter \in Limiters
    /\ clock = 0
    /\ doc = NoDocument
    /\ inflight = [c \in Callers |-> Outside]
    /\ answers = <<>>

\* time passes
Tick ==
    /\ clock < MaxClock
    /\ clock' = clock + 1
    /\ UNCHANGED <<limiter, doc, inflight, answers>>
    /\ UNCHANGED runVars
    /\ UNCHANGED callVars

InFlight == {c \in Callers : inflight[c].entered}

\* lines 38-42: a call of is_allowed reads the clock
EnterIsAllowed(c) ==
    /\ ~inflight[c].entered
    /\ Len(answers) + Cardinality(InFlight) < MaxAnswers
    /\ inflight' = [inflight EXCEPT ![c] = [entered |-> TRUE, now |-> clock]]
    /\ UNCHANGED <<limiter, clock, doc, answers>>
    /\ UNCHANGED runVars
    /\ UNCHANGED callVars

\* lines 44-81: the transaction of a call that read the clock at now: what
\* it returns and the document it leaves
update_in_transaction(now) ==
    LET window_start == now - limiter.window_seconds
    IN  IF doc.exists
        THEN LET requests == SelectSeq(doc.requests,
                                       LAMBDA r : r > window_start)
             IN  IF Len(requests) >= limiter.max_requests
                 THEN [allowed |-> FALSE,
                       seconds_until_reset |->
                           Max(0, requests[1] + limiter.window_seconds - now),
                       doc |-> doc]
                 ELSE [allowed |-> TRUE, seconds_until_reset |-> 0,
                       doc |-> [exists |-> TRUE,
                                requests |-> Append(requests, now)]]
        ELSE [allowed |-> TRUE, seconds_until_reset |-> 0,
              doc |-> [exists |-> TRUE, requests |-> <<now>>]]

\* lines 83-84: the transaction of caller c commits
Transact(c) ==
    /\ inflight[c].entered
    /\ LET done == update_in_transaction(inflight[c].now)
       IN  /\ doc' = done.doc
           /\ answers' = Append(answers,
                  [now |-> inflight[c].now,
                   allowed |-> done.allowed,
                   seconds_until_reset |-> done.seconds_until_reset,
                   before |-> doc, after |-> done.doc])
    /\ inflight' = [inflight EXCEPT ![c] = Outside]
    /\ UNCHANGED <<limiter, clock>>
    /\ UNCHANGED runVars
    /\ UNCHANGED callVars

NextLimiter ==
    \/ Tick
    \/ \E c \in Callers : EnterIsAllowed(c)
    \/ \E c \in Callers : Transact(c)

SpecLimiter == InitLimiter /\ [][NextLimiter]_vars

\* the calls answered 'allowed' whose timestamp lies in the window of
\* window_seconds that ends at t
AllowedIn(t) ==
    {i \in 1..Len(answers) :
        /\ answers[i].allowed
        /\ t - limiter.window_seconds < answers[i].now
        /\ answers[i].now <= t}

\* C28: under any interleaving of concurrent is_allowed calls the number of
\* calls answered 'allowed' whose timestamps fall inside any window of
\* window_seconds never exceeds max_requests; a denied call records no
\* request and leaves the stored list unchanged, and its seconds_until_reset
\* is >= 0 and <= window_seconds.
C28_RateLimit ==
    /\ \A t \in 0..MaxClock :
          Cardinality(AllowedIn(t)) <= limiter.max_requests
    /\ \A i \in 1..Len(answers) :
          ~answers[i].allowed =>
             /\ answers[i].after = answers[i].before
             /\ answers[i].seconds_until_reset >= 0
             /\ answers[i].seconds_until_reset <= limiter.window_seconds

\* the calls commit in the order in which they read the clock
InClockOrder ==
    \A i, j \in 1..Len(answers) : i < j => answers[i].now <= answers[j].now

\* what the code guarantees: the limit and the bounds of the waiting time
\* hold as long as the calls commit in the order in which they read the
\* clock; a denied call never changes the document
C28_RateLimitInOrder ==
    /\ InClockOrder =>
          /\ \A t \in 0..MaxClock :
                Cardinality(AllowedIn(t)) <= limiter.max_requests
          /\ \A i \in 1..Len(answers) :
                ~answers[i].allowed =>
                   /\ answers[i].seconds_until_reset >= 0
                   /\ answers[i].seconds_until_reset <= limiter.window_seconds
    /\ \A i \in 1..Len(answers) :
          ~answers[i].allowed => answers[i].after = answers[i].before

-----------------------------------------------------------------------------
(* telegram_bot/handlers.py: parse_stock_request (specification SpecParse). *)
(* A text is the sequence of its characters; the characters are ASCII.      *)

UpperLetters ==
    <<"A", "B", "C", "D", "E", "F", "G", "H", "I", "J", "K", "L", "M">> \o
    <<"N", "O", "P", "Q", "R", "S", "T", "U", "V", "W", "X", "Y", "Z">>
LowerLetters ==
    <<"a", "b", "c", "d", "e", "f", "g", "h", "i", "j", "k", "l", "m">> \o
    <<"n", "o", "p", "q", "r", "s", "t", "u", "v", "w", "x", "y", "z">>
Digits == <<"0", "1", "2", "3", "4", "5", "6", "7", "8", "9">>
Space == <<" ">>

IsIn(chars, c) == \E i \in 1..Len(chars) : chars[i] = c
IndexIn(chars, c) == CHOOSE i \in 1..Len(chars) : chars[i] = c

\* [A-Z], \d and \s of the patterns
Letter == {UpperLetters[i] : i \in 1..Len(UpperLetters)}
Digit == {Digits[i] : i \in 1..Len(Digits)}
Blank == {" ", "\t", "\n"}

\* str.upper()
upper(text) ==
    [i \in 1..Len(text) |->
        IF IsIn(LowerLetters, text[i])
        THEN UpperLetters[IndexIn(LowerLetters, text[i])]
        ELSE text[i]]

\* str.lower(), used to write the inputs in lower case
lower(text) ==
    [i \in 1..Len(text) |->
        IF IsIn(UpperLetters, text[i])
        THEN LowerLetters[IndexIn(UpperLetters, text[i])]
        ELSE text[i]]

\* str.strip()
strip(text) ==
    LET kept == {i \in 1..Len(text) : text[i] \notin Blank}
    IN  IF kept = {}
        THEN <<>>
        ELSE SubSeq(text, CHOOSE i \in kept : \A j \in kept : i <= j,
                          CHOOSE i \in kept : \A j \in kept : i >= j)

\* int() of a run of digits
RECURSIVE int(_)
int(digits) ==
    IF digits = <<>>
    THEN 0
    ELSE 10 * int(SubSeq(digits, 1, Len(digits) - 1))
         + (IndexIn(Digits, digits[Len(digits)]) - 1)

\* the number of characters of the class that text holds from position i
\* on: what a greedy [..]+ or \s* takes there
Run(text, i, class) ==
    IF i > Len(text)
    THEN 0
    ELSE CHOOSE n \in 0..(Len(text) + 1 - i) :
            /\ \A k \in 0..(n - 1) : text[i + k] \in class
            /\ i + n > Len(text) \/ text[i + n] \notin class

\* text holds word at position p
HasWord(text, p, word) ==
    /\ p + Len(word) - 1 <= Len(text)
    /\ SubSeq(text, p, p + Len(word) - 1) = word

Min(a, b) == IF a <= b THEN a ELSE b

\* what a greedy [A-Z]{1,5} takes at position p
Ticker(text, p) == SubSeq(text, p, p + Min(5, Run(text, p, Letter)) - 1)

NoMatch == [matched |-> FALSE]

Leftmost(starts) == CHOOSE i \in starts : \A j \in starts : i <= j

\* line 37, pattern1 = ([A-Z]{1,5})\s+(\d+)\s*(?:SHARES?)? matched at
\* position i: one to five letters that end where the white space starts,
\* white space, digits
Match1At(text, i) ==
    LET letters == Run(text, i, Letter)
        spaces == Run(text, i + letters, Blank)
        digits == Run(text, i + letters + spaces, Digit)
    IN  IF letters >= 1 /\ letters <= 5 /\ spaces >= 1 /\ digits >= 1
        THEN [matched |-> TRUE,
              ticker |-> SubSeq(text, i, i + letters - 1),
              number |-> SubSeq(text, i + letters + spaces,
                                i + letters + spaces + digits - 1)]
        ELSE NoMatch

\* SHARES?\s+(?:OF\s+)? followed by a letter, at position p: the position of
\* that letter, 0 when there is none; the alternatives in the order in which
\* the backtracking matcher tries them
SharesThenTicker(text, p) ==
    LET after(word) ==
            LET spaces == Run(text, p + Len(word), Blank)
                q == p + Len(word) + spaces
                of_spaces == Run(text, q + 2, Blank)
            IN  IF ~HasWord(text, p, word) \/ spaces = 0
                THEN 0
                ELSE IF /\ HasWord(text, q, <<"O", "F">>)
                        /\ of_spaces >= 1
                        /\ Run(text, q + 2 + of_spaces, Letter) >= 1
                     THEN q + 2 + of_spaces
                     ELSE IF Run(text, q, Letter) >= 1 THEN q ELSE 0
        plural == after(<<"S", "H", "A", "R", "E", "S">>)
    IN  IF plural # 0 THEN plural ELSE after(<<"S", "H", "A", "R", "E">>)

\* line 43, pattern2 = (\d+)\s*(?:SHARES?\s+(?:OF\s+)?)?([A-Z]{1,5}) matched at
\* position i
Match2At(text, i) ==
    LET digits == Run(text, i, Digit)
        p == i + digits + Run(text, i + digits, Blank)
        q == SharesThenTicker(text, p)
    IN  IF digits = 0
        THEN NoMatch
        ELSE IF q # 0
             THEN [matched |-> TRUE, ticker |-> Ticker(text, q),
                   number |-> SubSeq(text, i, i + digits - 1)]
             ELSE IF Run(text, p, Letter) >= 1
                  THEN [matched |-> TRUE, ticker |-> Ticker(text, p),
                        number |-> SubSeq(text, i, i + digits - 1)]
                  ELSE NoMatch

\* (\d+)\s*SHARES?\s+(?:OF\s+)?([A-Z]{1,5}) matched at position i
NumberSharesTicker(text, i) ==
    LET digits == Run(text, i, Digit)
        p == i + digits + Run(text, i + digits, Blank)
        q == SharesThenTicker(text, p)
    IN  IF digits >= 1 /\ q # 0
        THEN [matched |-> TRUE, ticker |-> Ticker(text, q),
              number |-> SubSeq(text, i, i + digits - 1)]
        ELSE NoMatch

\* line 49, pattern3 =
\* (?:I\s+HAVE\s+)?(\d+)\s*SHARES?\s+(?:OF\s+)?([A-Z]{1,5}) matched at
\* position i, with the prefix first
Match3At(text, i) ==
    LET i_spaces == Run(text, i + 1, Blank)
        h == i + 1 + i_spaces
        have_spaces == Run(text, h + 4, Blank)
        prefixed == NumberSharesTicker(text, h + 4 + have_spaces)
    IN  IF /\ HasWord(text, i, <<"I">>)
           /\ i_spaces >= 1
           /\ HasWord(text, h, <<"H", "A", "V", "E">>)
           /\ have_spaces >= 1
           /\ prefixed.matched
        THEN prefixed
        ELSE NumberSharesTicker(text, i)

\* re.search: the match at the leftmost position that has one
search(matches) ==
    LET starts == {i \in DOMAIN matches : matches[i].matched}
    IN  IF starts = {} THEN NoMatch ELSE matches[Leftmost(starts)]

\* the value None of parse_stock_request
NotParseable == [parsed |-> FALSE]

Parsed(match, pattern) ==
    [parsed |-> TRUE, ticker |-> match.ticker, shares |-> int(match.number),
     pattern |-> pattern]

\* lines 36-54: the three searches in the normalised text; pattern records
\* which of the three patterns decided
FirstPattern(text) ==
    LET match1 == search([i \in 1..Len(text) |-> Match1At(text, i)])
        match2 == search([i \in 1..Len(text) |-> Match2At(text, i)])
        match3 == search([i \in 1..Len(text) |-> Match3At(text, i)])
    IN  IF match1.matched
        THEN Parsed(match1, 1)
        ELSE IF match2.matched
             THEN Parsed(match2, 2)
             ELSE IF match3.matched
                  THEN Parsed(match3, 3)
                  ELSE NotParseable

\* lines 34-54; line 34 normalises the text once
parse_stock_request(given) ==
    CHOOSE parsed \in {FirstPattern(text) : text \in {strip(upper(given))}} :
        TRUE

\* the tickers and the numbers of shares of the documented examples, each
\* number with the digits that write it
ParseTickers == {<<"A", "A", "P", "L">>, <<"M", "S", "F", "T">>, <<"N", "V", "D", "A">>}
ParseNumbers ==
    {[text |-> <<"5", "0", "0">>, value |-> 500],
     [text |-> <<"2", "0", "0">>, value |-> 200],
     [text |-> <<"1", "0", "0", "0">>, value |-> 1000]}

\* lines 22-26 and 84-86: the supported formats as they are documented:
\* 'AAPL 500 shares', '500 shares of AAPL', 'AAPL 500' and
\* 'I have 500 shares of AAPL'
Format(f, ticker, number) ==
    LET shares_ == <<"s", "h", "a", "r", "e", "s">>
        of == <<"o", "f">>
    IN  CASE f = 1 -> ticker \o Space \o number \o Space \o shares_
          [] f = 2 -> number \o Space \o shares_ \o Space \o of \o Space
                      \o ticker
          [] f = 3 -> ticker \o Space \o number
          [] f = 4 -> <<"I">> \o Space \o <<"h", "a", "v", "e">> \o Space \o number
                      \o Space \o shares_ \o Space \o of \o Space \o ticker

\* a documented format in the letter case of the documentation, in lower
\* case and in upper case
Documented ==
    UNION {{Format(f, tk, n.text), lower(Format(f, tk, n.text)),
            upper(Format(f, tk, n.text))} :
           f \in 1..4, tk \in ParseTickers, n \in ParseNumbers}

\* other texts: up to MaxWords words, separated by one space
ParseWords ==
    {<<"a", "a", "p", "l">>, <<"G", "O", "O", "G", "L", "E">>, <<"5", "0", "0">>, <<"s", "h", "a", "r", "e", "s">>, <<"o", "f">>, <<"h", "e", "l", "l", "o">>, <<"!">>,
     <<>>}

RECURSIVE Join(_)
Join(words) ==
    IF words = <<>>
    THEN <<>>
    ELSE IF Len(words) = 1
         THEN words[1]
         ELSE words[1] \o Space \o Join(Tail(words))

ParseTexts == Documented \cup {Join(ws) : ws \in SeqsUpTo(ParseWords, MaxWords)}

InitParse ==
    /\ IdleRun
    /\ IdleBot
    /\ cands = <<>>
    /\ cprice = 0
    /\ ctech = Unset
    /\ cperm = <<>>
    /\ cargs \in [text : ParseTexts]
    /\ cout = Unset

\* parse_stock_request(text)
CallParse ==
    /\ cout = Unset
    /\ cout' = [fn |-> "parse_stock_request",
                out |-> parse_stock_request(cargs.text)]
    /\ UNCHANGED <<cands, cprice, ctech, cperm, cargs>>
    /\ UNCHANGED runVars
    /\ UNCHANGED botVars

NextParse == CallParse

SpecParse == InitParse /\ [][NextParse]_vars

ParseCalled == cout # Unset /\ cout.fn = "parse_stock_request"

\* the (ticker, shares) that the text asks for when it is format f in some
\* letter case
Intended(text, f) ==
    {[ticker |-> tk, shares |-> n.value] :
        tk \in {t \in ParseTickers : \E n \in ParseNumbers :
                   upper(text) = upper(Format(f, t, n.text))},
        n \in {m \in ParseNumbers : \E t \in ParseTickers :
                   upper(text) = upper(Format(f, t, m.text))}}

HasLetter(text) == \E i \in 1..Len(text) : upper(text)[i] \in Letter
HasDigit(text) == \E i \in 1..Len(text) : text[i] \in Digit

ParsedAs(want) ==
    /\ cout.out.parsed
    /\ cout.out.ticker = want.ticker
    /\ cout.out.shares = want.shares

\* C29: parse_stock_request returns the intended (ticker, shares) for each
\* documented format, 'AAPL 500 shares', '500 shares of AAPL', 'AAPL 500'
\* and 'I have 500 shares of AAPL', in any letter case; a text with no
\* ticker/number pair (no letter or no digit) yields None.
C29_ParsesDocumentedFormats ==
    ParseCalled =>
        /\ \A f \in 1..4 : \A want \in Intended(cargs.text, f) : ParsedAs(want)
        /\ ~(HasLetter(cargs.text) /\ HasDigit(cargs.text)) =>
              cout.out = NotParseable

\* what the code does: the first three formats give the intended pair, the
\* fourth gives the ticker HAVE, and a text without a letter or without a
\* digit gives None; the third pattern never decides
C29_ParsesShortFormats ==
    ParseCalled =>
        /\ \A f \in 1..3 : \A want \in Intended(cargs.text, f) : ParsedAs(want)
        /\ \A want \in Intended(cargs.text, 4) :
              ParsedAs([ticker |-> <<"H", "A", "V", "E">>,
                        shares |-> want.shares])
        /\ ~(HasLetter(cargs.text) /\ HasDigit(cargs.text)) =>
              cout.out = NotParseable
        /\ cout.out.parsed => cout.out.pattern \in {1, 2}

-----------------------------------------------------------------------------
(* telegram_bot/handlers.py: split_long_message (specification SpecSplit).  *)

NewLine == <<"\n">>

\* str.split(sep): the pieces between the occurrences of sep, found from the
\* left
RECURSIVE split(_, _)
split(text, sep) ==
    LET hits == {i \in 1..(Len(text) - Len(sep) + 1) : HasWord(text, i, sep)}
    IN  IF hits = {}
        THEN <<text>>
        ELSE <<SubSeq(text, 1, Leftmost(hits) - 1)>>
             \o split(SubSeq(text, Leftmost(hits) + Len(sep), Len(text)), sep)

\* lines 244-253: the loop over the lines of a paragraph that is too long
RECURSIVE SplitLines(_, _, _)
SplitLines(lines, st, max_length) ==
    IF lines = <<>>
    THEN st
    ELSE LET line == Head(lines)
         IN  SplitLines(Tail(lines),
                IF Len(st.current) + Len(line) + 1 <= max_length
                THEN [parts |-> st.parts,
                      current |-> IF st.current # <<>>
                                  THEN st.current \o NewLine \o line
                                  ELSE line]
                ELSE [parts |-> IF st.current # <<>>
                                THEN Append(st.parts, st.current)
                                ELSE st.parts,
                      current |-> line],
                max_length)

\* lines 232-256: the loop over the paragraphs
RECURSIVE SplitParagraphs(_, _, _)
SplitParagraphs(paragraphs, st, max_length) ==
    IF paragraphs = <<>>
    THEN st
    ELSE LET para == Head(paragraphs)
             flushed == IF st.current # <<>>
                        THEN Append(st.parts, st.current)
                        ELSE st.parts
         IN  SplitParagraphs(Tail(paragraphs),
                IF Len(st.current) + Len(para) + 2 <= max_length
                THEN [parts |-> st.parts,
                      current |-> IF st.current # <<>>
                                  THEN st.current \o NewLine \o NewLine
                                       \o para
                                  ELSE para]
                ELSE IF Len(para) > max_length
                     THEN SplitLines(split(para, NewLine),
                                     [parts |-> flushed, current |-> <<>>],
                                     max_length)
                     ELSE [parts |-> flushed, current |-> para],
                max_length)

\* lines 215-263
split_long_message(text, max_length) ==
    IF Len(text) <= max_length
    THEN <<text>>
    ELSE LET st == SplitParagraphs(split(text, NewLine \o NewLine),
                                   [parts |-> <<>>, current |-> <<>>],
                                   max_length)
         IN  IF st.current # <<>>
             THEN Append(st.parts, st.current)
             ELSE st.parts

\* the texts: up to MaxText characters, letters and line breaks
SplitChars == {"a", "b", "\n"}

InitSplit ==
    /\ IdleRun
    /\ IdleBot
    /\ cands = <<>>
    /\ cprice = 0
    /\ ctech = Unset
    /\ cperm = <<>>
    /\ cargs \in [text : SeqsUpTo(SplitChars, MaxText),
                  max_length : 1..MaxLength]
    /\ cout = Unset

\* split_long_message(text, max_length)
CallSplit ==
    /\ cout = Unset
    /\ cout' = [fn |-> "split_long_message",
                out |-> split_long_message(cargs.text, cargs.max_length)]
    /\ UNCHANGED <<cands, cprice, ctech, cperm, cargs>>
    /\ UNCHANGED runVars
    /\ UNCHANGED botVars

NextSplit == CallSplit

SpecSplit == InitSplit /\ [][NextSplit]_vars

SplitCalled == cout # Unset /\ cout.fn = "split_long_message"

\* C30: split_long_message(text, max_length) returns, for every text, parts
\* each of length at most max_length; a text already within max_length is
\* returned as a single unchanged part.
C30_PartsFit ==
    SplitCalled =>
        /\ \A i \in 1..Len(cout.out) : Len(cout.out[i]) <= cargs.max_length
        /\ Len(cargs.text) <= cargs.max_length => cout.out = <<cargs.text>>

\* the lines of text
LinesOf(text) ==
    LET lines == split(text, NewLine)
    IN  {lines[i] : i \in 1..Len(lines)}

\* what the code does: a part is longer than max_length only when it is a
\* line of the text that is itself longer than max_length, so the parts fit
\* when every line fits; a text within max_length is returned unchanged
C30_PartsFitUnlessLineTooLong ==
    SplitCalled =>
        /\ \A i \in 1..Len(cout.out) :
              \/ Len(cout.out[i]) <= cargs.max_length
              \/ cout.out[i] \in LinesOf(cargs.text)
        /\ Len(cargs.text) <= cargs.max_length => cout.out = <<cargs.text>>


====
